---- MODULE Spec2Model ----
(***************************************************************************)
(* A model of the markdownlang interpreter (crate `interpreter`) and of    *)
(* the program representation it executes (crate `mdl`).                   *)
(*                                                                         *)
(* The evaluator is a recursive function of the expression and of the      *)
(* interpreter's mutable state; the model writes it as recursive operators *)
(* that take the state record `st` and return a Result record holding the  *)
(* state the call left behind:                                             *)
(*     [ok |-> TRUE,  val |-> v, st |-> st']      Ok(v)                    *)
(*     [ok |-> FALSE, err |-> d, st |-> st']      Err(d)                   *)
(* The entry block's execute_block loop is run step by step by the         *)
(* actions of Next; blocks invoked from an instruction run inside that     *)
(* instruction's step, through the same operators.                         *)
(***************************************************************************)
EXTENDS Integers, Sequences, FiniteSets, TLC

VARIABLES
    registry,      \* BlockRegistry: blocks, parent_map, source_id
    hash_order,    \* iteration order of the HashMaps of this process
    scopes,        \* Environment.scopes
    fence_stack,   \* Environment.fence_stack
    output,        \* the writer: the lines written so far
    diagnostics,   \* the diagnostic sink of execute_program_entry
    trace,         \* history: what the executor has done so far, in order
    entry_name,    \* execute_program_entry's entry_name
    block,         \* execute_block's block (the entry block)
    group_idx,     \* execute_block: position in block.chain.groups (1-based)
    instr_idx,     \* execute_block: position in group.instructions (1-based)
    last_value,    \* execute_block's last_value
    program,       \* execute_program_entry's program
    panic,         \* the message of a panic, "" while there was none
    pc,            \* where execute_program_entry is
    result,        \* what execute_program_entry returned
    exec_depth,    \* execute_block's or evaluate_document's `depth`
    doc_eval,      \* evaluate_document: the nodes, the position, `last`
    callers,       \* the calls waiting for the running one to return
    source_events, \* parse_blocks: the events of the source
    parse_state,   \* parse_blocks: the ParseState
    walk           \* lexical_ancestors: block_name, `ancestors` and `current`

vars == <<registry, hash_order, scopes, fence_stack, output, diagnostics, trace,
          entry_name, block, group_idx, instr_idx, last_value, program, panic,
          pc, result, exec_depth, doc_eval, callers, source_events, parse_state,
          walk>>

----------------------------------------------------------------------------
(* Bounds of the model. *)

\* The longest chain (number of instructions) of the entry block M.
MaxInstr == 2

\* The most importing instructions in the chain of an entry block
MaxImports == 2

\* The most arms of a match expression
MaxArms == 2

\* The most elements (headings, lists, paragraphs, ...) of a source text
MaxElements == 3

\* The deepest heading level of a source text
MaxLevel == 3

\* The most items of an ordered list
MaxItems == 3

\* The most steps of the loop of lexical_ancestors the model follows
MaxWalk == 4

----------------------------------------------------------------------------
(* Option, Range, Result *)

None == [t |-> "None"]

Range(a, b) == [start |-> a, end |-> b]

range_is_empty(r) == r.start >= r.end

Ok(v, st) == [ok |-> TRUE, val |-> v, st |-> st]

Err(d, st) == [ok |-> FALSE, err |-> d, st |-> st]

\* Vec::contains
Contains(seq, x) == \E k \in 1..Len(seq) : seq[k] = x

----------------------------------------------------------------------------
(* RuntimeValue and StrikethroughPayload *)

Number(n) == [t |-> "Number", n |-> n]

Boolean(b) == [t |-> "Boolean", b |-> b]

String(s) == [t |-> "String", s |-> s]

Unit == [t |-> "Unit"]

Document(nodes) == [t |-> "Document", nodes |-> nodes]

Eager(v) == [k |-> "Eager", inner |-> v]

Lazy(ast) == [k |-> "Lazy", ast |-> ast]

Template(ts) == [k |-> "Template", ts |-> ts]

Strikethrough(payload) == [t |-> "Strikethrough", payload |-> payload]

is_falsy(v) ==
    \/ v = Boolean(FALSE)
    \/ v.t = "Strikethrough"
    \/ v = Unit

is_truthy(v) == ~is_falsy(v)

type_name(v) == v.t

----------------------------------------------------------------------------
(* DiagnosticError and RuntimeError *)

Custom(msg) == [t |-> "Custom", msg |-> msg]

UndefinedVariable(name) == [t |-> "UndefinedVariable", name |-> name]

UndefinedBlock(name) == [t |-> "UndefinedBlock", name |-> name]

ArgumentOutOfBounds(idx) == [t |-> "ArgumentOutOfBounds", idx |-> idx]

TypeError(expected, got) == [t |-> "TypeError", expected |-> expected, got |-> got]

NoEntryPoint == [t |-> "NoEntryPoint"]

IoError(msg) == [t |-> "IoError", msg |-> msg]

NonExhaustiveMatch == [t |-> "NonExhaustiveMatch"]

StackOverflow == [t |-> "StackOverflow"]

ImportNotImplemented(url) == [t |-> "ImportNotImplemented", url |-> url]

\* DiagnosticError::warning
warning(message, span, source_id) ==
    [error |-> Custom(message), span |-> span, source_id |-> source_id,
     is_warning |-> TRUE]

\* From<RuntimeError> for DiagnosticError
\* An error wrapped as if it were a warning
error_as_warning(error) ==
    [error |-> error, span |-> None, source_id |-> 0, is_warning |-> TRUE]

from_error(error) ==
    [error |-> error, span |-> None, source_id |-> 0, is_warning |-> FALSE]

SameFenceMessage(name) ==
    "reading variable '" \o name
        \o "' at the same fence as its assignment (undefined behavior)"

NonLexicalMessage(name) ==
    "reading variable '" \o name
        \o "' from a non-lexical scope (undefined behavior)"

BeforeAssignmentMessage(name) ==
    "reading variable '" \o name \o "' before assignment (undefined behavior)"

----------------------------------------------------------------------------
(* The program representation: Value (expression AST), TemplateString,     *)
(* Instruction, FenceGroup, Chain, Block, BlockReference                   *)

NumberLiteral(n) == [t |-> "NumberLiteral", n |-> n]

StringLiteral(s) == [t |-> "StringLiteral", s |-> s]

BooleanLiteral(b) == [t |-> "BooleanLiteral", b |-> b]

UnitLiteral == [t |-> "UnitLiteral"]

VariableReference(name, span) ==
    [t |-> "VariableReference", name |-> name, span |-> span]

PositionalArgumentReference(idx, span) ==
    [t |-> "PositionalArgumentReference", idx |-> idx, span |-> span]

SpreadArgumentReference == [t |-> "SpreadArgumentReference"]

Local(name) == [t |-> "Local", name |-> name]

\* path: the path as it is written, cut into its pieces
LocalImport(path, name) == [t |-> "LocalImport", path |-> path, name |-> name]

RemoteImport(url, name) == [t |-> "RemoteImport", url |-> url, name |-> name]

\* BlockReference::block_name
block_name_of(block_ref) == block_ref.name

BlockInvocation(args, block_ref) ==
    [t |-> "BlockInvocation", args |-> args, block_ref |-> block_ref]

EvaluatedBlockInvocation(args, block_ref) ==
    [t |-> "EvaluatedBlockInvocation", args |-> args, block_ref |-> block_ref]

Literal(s) == [t |-> "Literal", s |-> s]

Expression(expr) == [t |-> "Expression", expr |-> expr]

TemplateString(parts) == [parts |-> parts]

\* TemplateString::single_expression
single_expression(v) == TemplateString(<<Expression(v)>>)

PrintExpr(template) == [t |-> "Print", template |-> template]

Interpolation(template) == [t |-> "Interpolation", template |-> template]

StrikethroughExpr(template) == [t |-> "Strikethrough", template |-> template]

UnaryOperation(operator, operand) ==
    [t |-> "UnaryOperation", operator |-> operator, operand |-> operand]

BinaryOperation(operator, left, right) ==
    [t |-> "BinaryOperation", operator |-> operator, left |-> left,
     right |-> right]

\* false_branch is None for the two-operand form
\* arms[k] = [template, result]; otherwise is None or
\* Some([binding |-> None or Some(name), result |-> value])
Match(value, arms, otherwise) ==
    [t |-> "Match", value |-> value, arms |-> arms, otherwise |-> otherwise]

Conditional(condition, true_branch, false_branch) ==
    [t |-> "Conditional", condition |-> condition, true_branch |-> true_branch,
     false_branch |-> false_branch]

Assignment(variable, value, span) ==
    [t |-> "Assignment", variable |-> variable, value |-> value, span |-> span]

ExpressionInstr(value, span) ==
    [t |-> "Expression", value |-> value, span |-> span]

FenceGroup(index, instructions) ==
    [index |-> index, instructions |-> instructions]

Chain(groups) == [groups |-> groups]

\* Chain::is_empty
chain_is_empty(chain) == chain.groups = <<>>

Text(s) == [t |-> "Text", s |-> s]

Strong(children) == [t |-> "Strong", children |-> children]

StrikethroughInline(children) == [t |-> "Strikethrough", children |-> children]

\* dest: the destination as it is written, cut into its pieces
Link(dest) == [t |-> "Link", dest |-> dest]

Image(dest) == [t |-> "Image", dest |-> dest]

SoftBreak == [t |-> "SoftBreak"]

Paragraph(inlines) == [t |-> "Paragraph", inlines |-> inlines]

Block(name, level, chain, children, body) ==
    [name |-> name, level |-> level, chain |-> chain, children |-> children,
     body |-> body]

----------------------------------------------------------------------------
(* Environment: Scope, FenceContext and their operations.  `st` is the     *)
(* interpreter state threaded through every call.                          *)

EmptyMap == <<>>

\* HashMap::insert
Insert(map, key, val) == (key :> val) @@ map

\* The keys of a HashMap in the order this process iterates them.
Keys(map, order) == SelectSeq(order, LAMBDA key : key \in DOMAIN map)

RECURSIVE HoistAll(_, _)
HoistAll(hoisted_vars, k) ==
    IF k > Len(hoisted_vars) THEN EmptyMap
    ELSE Insert(HoistAll(hoisted_vars, k + 1), hoisted_vars[k], None)

\* Scope::new
Scope(arguments, hoisted_vars, block_name, lexical_ancestors) ==
    [variables |-> HoistAll(hoisted_vars, 1),
     arguments |-> arguments,
     block_name |-> block_name,
     lexical_ancestors |-> lexical_ancestors]

\* FenceContext::default
FenceContext == [reads |-> EmptyMap, writes |-> EmptyMap, current_instruction |-> 0]

push_fence_context(st) ==
    [st EXCEPT !.fence_stack = Append(@, FenceContext)]

set_fence_instruction(st, idx) ==
    IF st.fence_stack = <<>> THEN st
    ELSE [st EXCEPT !.fence_stack[Len(st.fence_stack)].current_instruction = idx]

\* A fence context that keeps no reads
record_no_read(st, name, span) == st

record_fence_read(st, name, span) ==
    IF st.fence_stack = <<>> THEN st
    ELSE LET top == Len(st.fence_stack)
             ctx == st.fence_stack[top]
             idx == ctx.current_instruction
             old == IF name \in DOMAIN ctx.reads THEN ctx.reads[name] ELSE <<>>
         IN  [st EXCEPT !.fence_stack[top].reads =
                  Insert(ctx.reads, name, Append(old, [idx |-> idx, span |-> span]))]

record_fence_write(st, name) ==
    IF st.fence_stack = <<>> THEN st
    ELSE LET top == Len(st.fence_stack)
             ctx == st.fence_stack[top]
             idx == ctx.current_instruction
             old == IF name \in DOMAIN ctx.writes THEN ctx.writes[name] ELSE <<>>
         IN  [st EXCEPT !.fence_stack[top].writes =
                  Insert(ctx.writes, name, Append(old, idx))]

\* A filter that keeps the reads apart from every write
spans_apart_from_every_write(read_entries, write_indices) ==
    LET flagged == SelectSeq(read_entries,
                       LAMBDA r : \A w \in 1..Len(write_indices) :
                                      r.idx # write_indices[w])
    IN  [k \in 1..Len(flagged) |-> flagged[k].span]

\* pop_fence_context's filter: the spans of the reads of one name to report
ub_spans(read_entries, write_indices) ==
    LET flagged == SelectSeq(read_entries,
                       LAMBDA r : \E w \in 1..Len(write_indices) :
                                      r.idx # write_indices[w])
    IN  [k \in 1..Len(flagged) |-> flagged[k].span]

RECURSIVE violations_of(_, _, _)
violations_of(ctx, names, k) ==
    IF k > Len(names) THEN <<>>
    ELSE LET name == names[k]
             rest == violations_of(ctx, names, k + 1)
         IN  IF name \in DOMAIN ctx.writes
             THEN LET spans == ub_spans(ctx.reads[name], ctx.writes[name])
                  IN  IF spans # <<>>
                      THEN <<[name |-> name, spans |-> spans]>> \o rest
                      ELSE rest
             ELSE rest

\* Environment::pop_fence_context: the violations of the popped context
\* (the caller checks that there is a context).
fence_violations(ctx, order) == violations_of(ctx, Keys(ctx.reads, order), 1)

Panic(st, msg) ==
    Err(from_error([t |-> "Panic", msg |-> msg]), [st EXCEPT !.panic = msg])

push_scope(st, scope) == [st EXCEPT !.scopes = Append(@, scope)]

\* Vec::pop: nothing to pop leaves the stack empty
pop_scope(st) ==
    IF st.scopes = <<>> THEN st
    ELSE [st EXCEPT !.scopes = SubSeq(@, 1, Len(@) - 1)]

Found(value, cross_scope, non_lexical_scope) ==
    [t |-> "Found", value |-> value, cross_scope |-> cross_scope,
     non_lexical_scope |-> non_lexical_scope]

HoistedUnassigned == [t |-> "HoistedUnassigned"]

NotFound == [t |-> "NotFound"]

\* The loop of get_variable_info: k is the scope looked at, from the
\* innermost (Len(scopes)) outwards.
\* Every scope counts as lexical
never_non_lexical(scope, current, is_cross_scope) == FALSE

\* get_variable_info: is_non_lexical
is_non_lexical(scope, current, is_cross_scope) ==
    /\ is_cross_scope
    /\ scope.block_name # current.block_name
    /\ ~Contains(current.lexical_ancestors, scope.block_name)

RECURSIVE lookup_from(_, _, _)
lookup_from(scope_stack, name, k) ==
    IF k = 0 THEN NotFound
    ELSE IF name \in DOMAIN scope_stack[k].variables
         THEN LET scope == scope_stack[k]
                  current == scope_stack[Len(scope_stack)]
                  depth == Len(scope_stack) - k
                  is_cross_scope == depth > 0
                  val == scope.variables[name]
              IN  IF val = None THEN HoistedUnassigned
                  ELSE Found(val, is_cross_scope,
                             is_non_lexical(scope, current, is_cross_scope))
         ELSE lookup_from(scope_stack, name, k - 1)

\* Environment::get_variable_info (the caller checks that there is a scope)
get_variable_info(scope_stack, name) ==
    lookup_from(scope_stack, name, Len(scope_stack))

\* An assignment that stores nothing
forget_variable(st, name, value) == st

\* The variable is stored in the outermost scope
set_in_outermost(st, name, value) ==
    [st EXCEPT !.scopes[1].variables = Insert(@, name, value)]

\* Environment::set_variable (the caller checks that there is a scope)
set_variable(st, name, value) ==
    [st EXCEPT !.scopes[Len(st.scopes)].variables = Insert(@, name, value)]

\* The argument is read from the outermost scope
get_outermost_argument(scope_stack, idx) ==
    IF scope_stack = <<>> THEN None
    ELSE IF idx + 1 \in 1..Len(scope_stack[1].arguments)
    THEN scope_stack[1].arguments[idx + 1]
    ELSE None

\* Environment::get_argument: idx is 0-based
get_argument(scope_stack, idx) ==
    IF scope_stack = <<>> THEN None
    ELSE LET arguments == scope_stack[Len(scope_stack)].arguments
         IN  IF idx + 1 \in 1..Len(arguments) THEN arguments[idx + 1] ELSE None

get_all_arguments(scope_stack) ==
    IF scope_stack = <<>> THEN <<>>
    ELSE scope_stack[Len(scope_stack)].arguments

----------------------------------------------------------------------------
(* Display (to_string) of runtime values and documents *)

RECURSIVE display_inlines(_, _)
display_inlines(inlines, k) ==
    IF k > Len(inlines) THEN ""
    ELSE (IF inlines[k].t = "Text" THEN inlines[k].s ELSE "")
             \o display_inlines(inlines, k + 1)

RECURSIVE display_nodes(_, _)
display_nodes(nodes, k) ==
    IF k > Len(nodes) THEN ""
    ELSE display_inlines(nodes[k].inlines, 1) \o "\n" \o display_nodes(nodes, k + 1)

\* evaluator.rs value_to_markdown_text, for the expressions the model builds
value_to_markdown_text(value) ==
    CASE value.t = "StringLiteral" -> "\"" \o value.s \o "\""
      [] value.t = "NumberLiteral" -> ToString(value.n)
      [] value.t = "BooleanLiteral" -> IF value.b THEN "true" ELSE "false"
      [] value.t = "UnitLiteral" -> "()"
      [] value.t = "VariableReference" -> value.name
      [] value.t = "PositionalArgumentReference" -> "#" \o ToString(value.idx)
      [] value.t = "SpreadArgumentReference" -> "#*"
      [] value.t = "BlockInvocation" -> "[](#" \o block_name_of(value.block_ref) \o ")"
      [] value.t = "EvaluatedBlockInvocation" ->
             "![](#" \o block_name_of(value.block_ref) \o ")"
      [] OTHER -> "{" \o value.t \o "}"

RECURSIVE template_to_text(_, _)
template_to_text(parts, k) ==
    IF k > Len(parts) THEN ""
    ELSE (IF parts[k].t = "Literal" THEN parts[k].s
          ELSE "{" \o value_to_markdown_text(parts[k].expr) \o "}")
         \o template_to_text(parts, k + 1)

\* Display for RuntimeValue
RECURSIVE display(_)
display(v) ==
    CASE v.t = "Number" -> ToString(v.n)
      [] v.t = "Boolean" -> IF v.b THEN "true" ELSE "false"
      [] v.t = "String" -> v.s
      [] v.t = "Unit" -> "()"
      [] v.t = "Document" -> display_nodes(v.nodes, 1)
      [] v.t = "Strikethrough" ->
             "~~" \o (CASE v.payload.k = "Eager" -> display(v.payload.inner)
                        [] v.payload.k = "Lazy" -> value_to_markdown_text(v.payload.ast)
                        [] v.payload.k = "Template" ->
                               template_to_text(v.payload.ts.parts, 1))
                  \o "~~"

----------------------------------------------------------------------------
(* Operators of the evaluator that do not touch the state *)

MAX_DEPTH == 128

coerce_number(val) ==
    IF val.t = "Number" THEN [ok |-> TRUE, val |-> val.n]
    ELSE [ok |-> FALSE, err |-> TypeError("Number", type_name(val))]

numeric_binop(operator, left, right) ==
    LET a == coerce_number(left)
        b == coerce_number(right)
    IN  IF ~a.ok THEN a
        ELSE IF ~b.ok THEN b
        ELSE [ok |-> TRUE,
              val |-> CASE operator = "Subtraction" -> Number(a.val - b.val)
                        [] operator = "Multiplication" -> Number(a.val * b.val)
                        [] operator = "GreaterThan" -> Boolean(a.val > b.val)
                        [] operator = "LessThan" -> Boolean(a.val < b.val)
                        [] operator = "GreaterThanOrEqual" -> Boolean(a.val >= b.val)
                        [] operator = "LessThanOrEqual" -> Boolean(a.val <= b.val)]

\* evaluate (UnaryOperation, Negation) after the demand
negate(val) ==
    LET n == coerce_number(val)
    IN  IF n.ok THEN [ok |-> TRUE, val |-> Number(0 - n.val)] ELSE n

eval_binary_op(operator, left, right) ==
    CASE operator = "Addition" ->
             IF left.t = "Number" /\ right.t = "Number"
             THEN [ok |-> TRUE, val |-> Number(left.n + right.n)]
             ELSE IF left.t = "String" /\ right.t = "String"
             THEN [ok |-> TRUE, val |-> String(left.s \o right.s)]
             ELSE [ok |-> FALSE,
                   err |-> TypeError("matching numeric or string types",
                                     type_name(left) \o " + " \o type_name(right))]
      [] operator = "Equality" -> [ok |-> TRUE, val |-> Boolean(left = right)]
      [] operator = "Inequality" -> [ok |-> TRUE, val |-> Boolean(left # right)]
      [] operator = "LogicalAnd" ->
             [ok |-> TRUE, val |-> Boolean(is_truthy(left) /\ is_truthy(right))]
      [] operator = "LogicalOr" ->
             [ok |-> TRUE, val |-> Boolean(is_truthy(left) \/ is_truthy(right))]
      [] OTHER -> numeric_binop(operator, left, right)

\* evaluate (Strikethrough): does the template hold an invocation part?
has_invocations(template) ==
    \E k \in 1..Len(template.parts) :
        /\ template.parts[k].t = "Expression"
        /\ template.parts[k].expr.t \in {"BlockInvocation", "EvaluatedBlockInvocation"}

\* executor.rs auto_unwrap_document (paragraph case)
auto_unwrap_document(doc) ==
    IF /\ Len(doc.nodes) = 1
       /\ doc.nodes[1].t = "Paragraph"
       /\ Len(doc.nodes[1].inlines) = 1
       /\ doc.nodes[1].inlines[1].t = "Text"
    THEN String(doc.nodes[1].inlines[1].s)
    ELSE doc

RECURSIVE hoist_instructions(_, _, _)
hoist_instructions(instructions, k, found) ==
    IF k > Len(instructions) THEN found
    ELSE hoist_instructions(instructions, k + 1,
             IF /\ instructions[k].t = "Assignment"
                /\ ~Contains(found, instructions[k].variable)
             THEN Append(found, instructions[k].variable)
             ELSE found)

RECURSIVE hoist_groups(_, _, _)
hoist_groups(groups, g, found) ==
    IF g > Len(groups) THEN found
    ELSE hoist_groups(groups, g + 1,
                      hoist_instructions(groups[g].instructions, 1, found))

\* A scope that starts without the names the chain assigns
no_hoisting(chain) == <<>>

collect_hoisted_variables(chain) == hoist_groups(chain.groups, 1, <<>>)

----------------------------------------------------------------------------
(* BlockRegistry *)

Some(v) == [t |-> "Some", v |-> v]

RECURSIVE register_block(_, _, _)
RECURSIVE register_blocks(_, _, _, _)

\* reg = [blocks, parent_map]: the two maps register_block fills
register_block(reg, blk, parent_name) ==
    register_blocks(
        [blocks |-> Insert(reg.blocks, blk.name, blk),
         parent_map |-> Insert(reg.parent_map, blk.name, parent_name)],
        blk.children, 1, Some(blk.name))

register_blocks(reg, blks, k, parent_name) ==
    IF k > Len(blks) THEN reg
    ELSE register_blocks(register_block(reg, blks[k], parent_name),
                         blks, k + 1, parent_name)

\* The directory of the entry program's file (cli main.rs 176-178), as the
\* names on the way from the root
BaseDir == <<"base">>

\* BlockRegistry::from_program_with_base
from_program(prog) ==
    LET reg == register_blocks([blocks |-> EmptyMap, parent_map |-> EmptyMap],
                               prog.blocks, 1, None)
    IN  [blocks |-> reg.blocks, parent_map |-> reg.parent_map,
         base_dir |-> BaseDir, import_cache |-> EmptyMap,
         source_id |-> prog.source_id]

\* The while loop of lexical_ancestors; `fuel` stops the model's walk where
\* the parent map has a cycle.
RECURSIVE ancestors_from(_, _, _)
ancestors_from(parent_map, current, fuel) ==
    IF /\ fuel > 0
       /\ current \in DOMAIN parent_map
       /\ parent_map[current] # None
    THEN LET parent == parent_map[current].v
         IN  <<parent>> \o ancestors_from(parent_map, parent, fuel - 1)
    ELSE <<>>

lexical_ancestors(reg, block_name) ==
    ancestors_from(reg.parent_map, block_name, Cardinality(DOMAIN reg.parent_map) + 1)

----------------------------------------------------------------------------
(* The evaluator and the executor *)

\* History only: append an event to st.trace.
Note(st, event) == [st EXCEPT !.trace = Append(@, event)]

\* History only: the scope (position in the stack) that holds `name`, 0 if none.
RECURSIVE owner_from(_, _, _)
owner_from(scope_stack, name, k) ==
    IF k = 0 THEN 0
    ELSE IF name \in DOMAIN scope_stack[k].variables THEN k
    ELSE owner_from(scope_stack, name, k - 1)

\* History only: a variable reference is evaluated with this scope stack.
ReadEvent(st, name) ==
    [e |-> "read", name |-> name, lvl |-> Len(st.scopes),
     owner |-> owner_from(st.scopes, name, Len(st.scopes)),
     scopes |-> st.scopes]

\* diagnostics.push
push_diagnostic(st, d) == [st EXCEPT !.diagnostics = Append(@, d)]

\* writeln!(output, "{}", s)
writeln(st, s) == [st EXCEPT !.output = Append(@, s)]

\* String of the pieces of a text
RECURSIVE Concat(_)
Concat(pieces) ==
    IF pieces = <<>> THEN "" ELSE Head(pieces) \o Concat(Tail(pieces))

\* str::rsplit_once('#'): the position of the last '#', 0 if there is none
last_hash(dest) ==
    LET at == {k \in 1..Len(dest) : dest[k] = "#"}
    IN  IF at = {} THEN 0 ELSE CHOOSE k \in at : \A j \in at : j <= k

\* evaluator_helpers.rs parse_runtime_block_ref
parse_runtime_block_ref(dest) ==
    IF dest # <<>> /\ dest[1] = "#" THEN Local(Concat(Tail(dest)))
    ELSE IF last_hash(dest) # 0
    THEN IF last_hash(dest) > 1 /\ dest[1] \in {"http://", "https://"}
         THEN RemoteImport(Concat(SubSeq(dest, 1, last_hash(dest) - 1)),
                           Concat(SubSeq(dest, last_hash(dest) + 1, Len(dest))))
         ELSE LocalImport(SubSeq(dest, 1, last_hash(dest) - 1),
                          Concat(SubSeq(dest, last_hash(dest) + 1, Len(dest))))
    ELSE Local(Concat(dest))

----------------------------------------------------------------------------
(* Local imports: the files on disk and BlockRegistry::load_import.  A     *)
(* path is written as its pieces: names, "." and "..", the separator "/"   *)
(* and extensions such as ".md"; a canonical path is the sequence of names *)
(* from the root to the file.                                              *)

Extensions == {".md", ".txt"}

Dirs == {<<>>, <<"base">>, <<"base", "sub">>}

\* Symbolic links: base/alias.md points to base/lib.md
Symlinks == [p \in {<<"base", "alias.md">>} |-> <<"base", "lib.md">>]

\* A block that has only a body, the text `s`
TextBlock(name, s) ==
    Block(name, 1, Chain(<<>>), <<>>, Document(<<Paragraph(<<Text(s)>>)>>))

\* A block whose chain is the one instruction `[](dest)`
ImportingBlock(name, path, block_name) ==
    Block(name, 1,
          Chain(<<FenceGroup(1,
              <<ExpressionInstr(BlockInvocation(<<>>, LocalImport(path, block_name)),
                                Range(10, 19))>>)>>),
          <<>>, Document(<<>>))

FilePaths ==
    {<<"base", "lib.md">>, <<"base", "b.md">>, <<"base", "bad.md">>,
     <<"base", "sub", "a.md">>, <<"base", "sub", "b.md">>,
     <<"base", "sub", "c.md">>}

\* What Parser::parse makes of each file: its blocks, or parse errors
Files ==
    [p \in FilePaths |->
        CASE p = <<"base", "lib.md">> ->
                 [ok |-> TRUE,
                  blocks |-> <<TextBlock("A", "lib a"), TextBlock("B", "lib b")>>]
          [] p = <<"base", "b.md">> ->
                 [ok |-> TRUE, blocks |-> <<TextBlock("B", "base b")>>]
          [] p = <<"base", "bad.md">> ->
                 [ok |-> FALSE, messages |-> "unclosed fence"]
          [] p = <<"base", "sub", "a.md">> ->
                 [ok |-> TRUE,
                  blocks |-> <<ImportingBlock("X", <<"b", ".md">>, "B"),
                               ImportingBlock("Y", <<"c">>, "C")>>]
          [] p = <<"base", "sub", "b.md">> ->
                 [ok |-> TRUE, blocks |-> <<TextBlock("B", "sub b")>>]
          [] p = <<"base", "sub", "c.md">> ->
                 [ok |-> TRUE, blocks |-> <<TextBlock("C", "sub c")>>]]

\* Path::components: the pieces between separators, empty ones and "." left out
RECURSIVE components(_, _, _)
components(path, k, current) ==
    IF k > Len(path)
    THEN IF current \in {<<>>, <<".">>} THEN <<>> ELSE <<current>>
    ELSE IF path[k] = "/"
    THEN (IF current \in {<<>>, <<".">>} THEN <<>> ELSE <<current>>)
             \o components(path, k + 1, <<>>)
    ELSE components(path, k + 1, Append(current, path[k]))

\* PathBuf::join: an absolute path replaces the base
join(base_dir, path) ==
    IF path # <<>> /\ path[1] = "/" THEN components(path, 1, <<>>)
    ELSE [k \in 1..Len(base_dir) |-> <<base_dir[k]>>] \o components(path, 1, <<>>)

\* Path::extension of the last component
extension_is_none(resolved) ==
    \/ resolved = <<>>
    \/ resolved[Len(resolved)] = <<"..">>
    \/ Len(resolved[Len(resolved)]) < 2
    \/ resolved[Len(resolved)][Len(resolved[Len(resolved)])] \notin Extensions

\* load_import lines 70-76: `.md` is added when the path has no extension
with_md_extension(resolved) ==
    IF resolved = <<>> \/ resolved[Len(resolved)] = <<"..">> THEN resolved
    ELSE IF extension_is_none(resolved)
    THEN [resolved EXCEPT ![Len(resolved)] = Append(@, ".md")]
    ELSE resolved

\* fs::canonicalize: ".." and links resolved, every name on the way exists;
\* None when the path does not exist
RECURSIVE canonicalize_from(_, _, _)
canonicalize_from(resolved, k, at) ==
    IF k > Len(resolved) THEN Some(at)
    ELSE IF resolved[k] = <<"..">>
    THEN canonicalize_from(resolved, k + 1,
                           IF at = <<>> THEN at ELSE SubSeq(at, 1, Len(at) - 1))
    ELSE IF Append(at, Concat(resolved[k])) \in DOMAIN Symlinks
    THEN canonicalize_from(resolved, k + 1,
                           Symlinks[Append(at, Concat(resolved[k]))])
    ELSE IF Append(at, Concat(resolved[k])) \in Dirs
            \/ (k = Len(resolved)
                /\ Append(at, Concat(resolved[k])) \in FilePaths)
    THEN canonicalize_from(resolved, k + 1, Append(at, Concat(resolved[k])))
    ELSE None

canonicalize(resolved) == canonicalize_from(resolved, 1, <<>>)

\* load_import lines 70-81: Some(canonical path), or None
resolve(base_dir, path) == canonicalize(with_md_extension(join(base_dir, path)))

\* History only: the block whose instruction is running
importer(st) ==
    IF st.scopes = <<>> THEN None ELSE st.scopes[Len(st.scopes)].block_name

\* History only: the registry resolved `path` for the running block, and
\* it read and parsed a file
ImportEvent(st, path, canonical) ==
    [e |-> "import", lvl |-> Len(st.scopes), from |-> importer(st),
     path |-> path, canonical |-> canonical]

LoadEvent(st, canonical) ==
    [e |-> "load", lvl |-> Len(st.scopes), canonical |-> canonical]

\* load_import lines 83-85
cache_never_consulted(reg, canonical) == FALSE

is_cached(reg, canonical) == canonical \in DOMAIN reg.import_cache

\* load_import lines 97-102: the blocks of the file go into a map of their
\* own and into the registry's parent_map, the map goes into the cache
insert_import(reg, canonical, blks) ==
    [reg EXCEPT
        !.parent_map =
            register_blocks([blocks |-> EmptyMap, parent_map |-> reg.parent_map],
                            blks, 1, None).parent_map,
        !.import_cache =
            Insert(@, canonical,
                   register_blocks([blocks |-> EmptyMap,
                                    parent_map |-> reg.parent_map],
                                   blks, 1, None).blocks)]

\* load_import once the path is resolved (lines 83-103)
load_resolved(st, path, canonical) ==
    IF is_cached(st.registry, canonical) THEN Ok(Unit, st)
    ELSE IF canonical \notin FilePaths
    THEN Err(from_error(IoError("cannot read '" \o Concat(path) \o "'")), st)
    ELSE IF ~Files[canonical].ok
    THEN Err(from_error(Custom("parse errors in '" \o Concat(path) \o "': "
                                   \o Files[canonical].messages)),
             Note(st, LoadEvent(st, canonical)))
    ELSE Ok(Unit,
            [Note(st, LoadEvent(st, canonical))
                EXCEPT !.registry =
                    insert_import(@, canonical, Files[canonical].blocks)])

\* BlockRegistry::load_import
load_import(st, path) ==
    IF resolve(st.registry.base_dir, path) = None
    THEN Err(from_error(IoError("cannot resolve '" \o Concat(path) \o "'")),
             Note(st, ImportEvent(st, path, None)))
    ELSE load_resolved(Note(st, ImportEvent(st, path,
                                            resolve(st.registry.base_dir, path))),
                       path, resolve(st.registry.base_dir, path).v)

\* BlockRegistry::get_imported: the block is the value of the result
get_imported(st, path, block_name) ==
    IF ~load_import(st, path).ok THEN load_import(st, path)
    ELSE IF block_name \in
              DOMAIN load_import(st, path).st.registry.import_cache[
                         resolve(st.registry.base_dir, path).v]
    THEN Ok(load_import(st, path).st.registry.import_cache[
                resolve(st.registry.base_dir, path).v][block_name],
            load_import(st, path).st)
    ELSE Err(from_error(UndefinedBlock(Concat(path) \o "#" \o block_name)),
             load_import(st, path).st)

----------------------------------------------------------------------------
(* Patterns (instruction/template and interpreter pattern.rs) *)

TemplateNumberLiteral(n) == [t |-> "NumberLiteral", n |-> n]

TemplateStringLiteral(str) == [t |-> "StringLiteral", s |-> str]

TemplateBooleanLiteral(b) == [t |-> "BooleanLiteral", b |-> b]

TemplateUnitLiteral == [t |-> "UnitLiteral"]

TemplateWildcard == [t |-> "Wildcard"]

TemplateBinding(name) == [t |-> "Binding", name |-> name]

\* inner is None or Some(template)
TemplateStrikethrough(inner) == [t |-> "Strikethrough", inner |-> inner]

TemplateAlternation(alternatives) ==
    [t |-> "Alternation", alternatives |-> alternatives]

TemplateCompound(sub_patterns) == [t |-> "Compound", sub_patterns |-> sub_patterns]

\* What match_inner returns and leaves in `bindings`
Matched(matched, bindings) == [matched |-> matched, bindings |-> bindings]

RECURSIVE match_inner(_, _, _)
RECURSIVE match_alternatives(_, _, _, _)
RECURSIVE match_sub_patterns(_, _, _, _)

\* pattern.rs 67-77: the first alternative that matches, with bindings of
\* its own that are added to the others
match_alternatives(alternatives, k, value, bindings) ==
    IF k > Len(alternatives) THEN Matched(FALSE, bindings)
    ELSE IF match_inner(alternatives[k], value, EmptyMap).matched
    THEN Matched(TRUE,
                 match_inner(alternatives[k], value, EmptyMap).bindings @@ bindings)
    ELSE match_alternatives(alternatives, k + 1, value, bindings)

\* pattern.rs 84-92: each node of the document against its sub-pattern
match_sub_patterns(sub_patterns, nodes, k, bindings) ==
    IF k > Len(sub_patterns) THEN Matched(TRUE, bindings)
    ELSE IF match_inner(sub_patterns[k], Document(<<nodes[k]>>), bindings).matched
    THEN match_sub_patterns(sub_patterns, nodes, k + 1,
             match_inner(sub_patterns[k], Document(<<nodes[k]>>), bindings).bindings)
    ELSE Matched(FALSE,
             match_inner(sub_patterns[k], Document(<<nodes[k]>>), bindings).bindings)

\* pattern.rs match_inner (document patterns are not part of the model)
match_inner(template, value, bindings) ==
    CASE template.t = "NumberLiteral" ->
             Matched(value.t = "Number" /\ value.n = template.n, bindings)
      [] template.t = "StringLiteral" ->
             Matched(value.t = "String" /\ value.s = template.s, bindings)
      [] template.t = "BooleanLiteral" ->
             Matched(value.t = "Boolean" /\ value.b = template.b, bindings)
      [] template.t = "UnitLiteral" -> Matched(value.t = "Unit", bindings)
      [] template.t = "Wildcard" -> Matched(TRUE, bindings)
      [] template.t = "Binding" ->
             Matched(TRUE, Insert(bindings, template.name, value))
      [] template.t = "Strikethrough" ->
             IF value.t # "Strikethrough" THEN Matched(FALSE, bindings)
             ELSE IF template.inner = None THEN Matched(TRUE, bindings)
             ELSE match_inner(template.inner.v,
                              IF value.payload.k = "Eager" THEN value.payload.inner
                              ELSE Unit,
                              bindings)
      [] template.t = "Alternation" ->
             match_alternatives(template.alternatives, 1, value, bindings)
      [] template.t = "Compound" ->
             IF value.t = "Document" /\ Len(value.nodes) = Len(template.sub_patterns)
             THEN match_sub_patterns(template.sub_patterns, value.nodes, 1, bindings)
             ELSE Matched(FALSE, bindings)

\* pattern.rs match_pattern: Some(bindings) or None
match_pattern(template, value) ==
    IF match_inner(template, value, EmptyMap).matched
    THEN Some(match_inner(template, value, EmptyMap).bindings)
    ELSE None

\* A match that binds nothing
bind_nothing(st, bindings) == st

\* evaluate (Match) lines 303-305: set_variable for every binding; the
\* names are distinct, so the order of the HashMap makes no difference
bind_all(st, bindings) ==
    [st EXCEPT !.scopes[Len(st.scopes)].variables = bindings @@ @]

\* The `?` operator (as in evaluator.rs 105-114): an Err returns at once, an
\* Ok goes on with F
Try(r, F(_)) == IF r.ok THEN F(r) ELSE r

\* A cap that lets one more level through
too_deep_later(depth) == depth > MAX_DEPTH + 1

\* A cap of one level
too_deep_at_once(depth) == depth > 1

\* depth > MAX_DEPTH
too_deep(depth) == depth > MAX_DEPTH

RECURSIVE evaluate(_, _, _, _)
RECURSIVE match_arms(_, _, _, _, _, _)
RECURSIVE demand(_, _, _)
RECURSIVE render_parts(_, _, _, _, _, _)
RECURSIVE evaluate_template_to_value(_, _, _, _)
RECURSIVE evaluate_args(_, _, _, _, _, _)
RECURSIVE invoke_block(_, _, _, _, _)
RECURSIVE execute_block(_, _, _, _)
RECURSIVE run_groups(_, _, _, _, _)
RECURSIVE run_instructions(_, _, _, _, _, _)
RECURSIVE execute_instruction(_, _, _)
RECURSIVE evaluate_document(_, _, _, _, _)
RECURSIVE evaluate_inlines(_, _, _, _, _)
RECURSIVE evaluate_inline(_, _, _)
RECURSIVE strong_text(_, _, _, _, _)

\* evaluate (VariableReference)
evaluate_variable(value, st, instruction_span) ==
    LET name == value.name
        span == IF range_is_empty(value.span) THEN instruction_span ELSE value.span
        source_id == st.registry.source_id
    IN  IF st.scopes = <<>> THEN Panic(st, "no scope on stack")
        ELSE LET info == get_variable_info(st.scopes, name)
                 st1 == Note(st, ReadEvent(st, name))
             IN  CASE info.t = "Found" ->
                          IF info.non_lexical_scope
                          THEN Ok(info.value,
                                  push_diagnostic(st1,
                                      warning(NonLexicalMessage(name), span, source_id)))
                          ELSE IF ~info.cross_scope
                          THEN Ok(info.value, record_fence_read(st1, name, span))
                          ELSE Ok(info.value, st1)
                   [] info.t = "HoistedUnassigned" ->
                          Ok(Unit,
                             push_diagnostic(record_fence_read(st1, name, span),
                                 warning(BeforeAssignmentMessage(name), span, source_id)))
                   [] info.t = "NotFound" ->
                          Err([from_error(UndefinedVariable(name))
                                  EXCEPT !.span = span, !.source_id = source_id], st1)

\* evaluate (PositionalArgumentReference)
evaluate_argument(value, st, instruction_span) ==
    LET span == IF range_is_empty(value.span) THEN instruction_span ELSE value.span
        arg == get_argument(st.scopes, value.idx)
    IN  IF arg # None THEN Ok(arg, st)
        ELSE Err([from_error(ArgumentOutOfBounds(value.idx))
                     EXCEPT !.span = span, !.source_id = st.registry.source_id], st)

RECURSIVE join_display(_, _)
join_display(args, k) ==
    IF k > Len(args) THEN ""
    ELSE display(args[k]) \o (IF k < Len(args) THEN ", " ELSE "")
             \o join_display(args, k + 1)

\* evaluate (SpreadArgumentReference)
evaluate_spread(st) ==
    Ok(String("[" \o join_display(get_all_arguments(st.scopes), 1) \o "]"), st)

\* eval_template_string: the loop over ts.parts; `acc` is `result`
render_parts(parts, k, acc, st, depth, instruction_span) ==
    IF k > Len(parts) THEN Ok(acc, st)
    ELSE IF parts[k].t = "Literal"
    THEN render_parts(parts, k + 1, acc \o parts[k].s, st, depth, instruction_span)
    ELSE Try(evaluate(parts[k].expr, st, depth, instruction_span), LAMBDA r :
             render_parts(parts, k + 1, acc \o display(r.val), r.st, depth,
                          instruction_span))

eval_template_string(ts, st, depth, instruction_span) ==
    render_parts(ts.parts, 1, "", st, depth, instruction_span)

evaluate_template_to_value(ts, st, depth, instruction_span) ==
    IF Len(ts.parts) = 1 /\ ts.parts[1].t = "Expression"
    THEN evaluate(ts.parts[1].expr, st, depth, instruction_span)
    ELSE Try(render_parts(ts.parts, 1, "", st, depth, instruction_span), LAMBDA r :
             Ok(String(r.val), r.st))

demand(val, st, depth) ==
    IF val.t = "Strikethrough"
    THEN CASE val.payload.k = "Eager" -> Ok(val.payload.inner, st)
           [] val.payload.k = "Lazy" ->
                  evaluate(val.payload.ast, st, depth, Range(0, 0))
           [] val.payload.k = "Template" ->
                  evaluate_template_to_value(val.payload.ts, st, depth, Range(0, 0))
    ELSE Ok(val, st)

\* args.iter().map(evaluate).collect::<Result<_, _>>()
evaluate_args(args, k, acc, st, depth, instruction_span) ==
    IF k > Len(args) THEN Ok(acc, st)
    ELSE Try(evaluate(args[k], st, depth, instruction_span), LAMBDA r :
             evaluate_args(args, k + 1, Append(acc, r.val), r.st, depth,
                           instruction_span))

\* map_err(DiagnosticError::from) on the result of a pure operator
lift(res, st) ==
    IF res.ok THEN Ok(res.val, st) ELSE Err(from_error(res.err), st)

\* Every operand is demanded, whatever the operator
demand_every_operand(operator, val, st, depth) == demand(val, st, depth)

\* evaluate (BinaryOperation): demand an operand unless the operator takes it
\* as it is
demand_operand(operator, val, st, depth) ==
    IF operator \in {"Equality", "Inequality", "LogicalAnd", "LogicalOr"}
    THEN Ok(val, st)
    ELSE demand(val, st, depth)

\* A falsy two-operand conditional that evaluates its branch all the same
run_branch(value, st, depth, instruction_span) ==
    evaluate(value.true_branch, st, depth + 1, instruction_span)

\* evaluate (Conditional), two operands and a falsy condition: the branch is
\* kept as it is written
skip_branch(value, st, depth, instruction_span) ==
    Ok(Strikethrough(Lazy(value.true_branch)), st)

\* evaluate (Match) lines 301-335: the arms from the k-th on, then otherwise
match_arms(value, k, val, st, depth, instruction_span) ==
    IF k <= Len(value.arms)
    THEN IF match_pattern(value.arms[k].template, val) # None
         THEN evaluate(value.arms[k].result,
                       bind_all(st, match_pattern(value.arms[k].template, val).v),
                       depth + 1, instruction_span)
         ELSE match_arms(value, k + 1, val, st, depth, instruction_span)
    ELSE IF value.otherwise # None
    THEN evaluate(value.otherwise.v.result,
                  IF value.otherwise.v.binding # None
                  THEN set_variable(st, value.otherwise.v.binding.v, val)
                  ELSE st,
                  depth + 1, instruction_span)
    ELSE Err(from_error(NonExhaustiveMatch), st)

evaluate(value, st, depth, instruction_span) ==
    IF too_deep(depth) THEN Err(from_error(StackOverflow), st)
    ELSE
    CASE value.t = "NumberLiteral" -> Ok(Number(value.n), st)
      [] value.t = "StringLiteral" -> Ok(String(value.s), st)
      [] value.t = "BooleanLiteral" -> Ok(Boolean(value.b), st)
      [] value.t = "UnitLiteral" -> Ok(Unit, st)
      [] value.t = "VariableReference" -> evaluate_variable(value, st, instruction_span)
      [] value.t = "PositionalArgumentReference" ->
             evaluate_argument(value, st, instruction_span)
      [] value.t = "SpreadArgumentReference" -> evaluate_spread(st)
      [] value.t = "UnaryOperation" ->
             Try(evaluate(value.operand, st, depth + 1, instruction_span), LAMBDA v :
                 IF value.operator = "Negation"
                 THEN Try(demand(v.val, v.st, depth + 1), LAMBDA d :
                          lift(negate(d.val), d.st))
                 ELSE Ok(Boolean(is_falsy(v.val)), v.st))
      [] value.t = "BinaryOperation" ->
             Try(evaluate(value.left, st, depth + 1, instruction_span), LAMBDA l :
             Try(evaluate(value.right, l.st, depth + 1, instruction_span), LAMBDA r :
             Try(demand_operand(value.operator, l.val, r.st, depth + 1), LAMBDA ld :
             Try(demand_operand(value.operator, r.val, ld.st, depth + 1), LAMBDA rd :
                 lift(eval_binary_op(value.operator, ld.val, rd.val), rd.st)))))
      [] value.t = "Print" ->
             Try(eval_template_string(value.template, st, depth + 1,
                                      instruction_span), LAMBDA s :
                 Ok(Unit, writeln(s.st, s.val)))
      [] value.t = "Interpolation" ->
             Try(eval_template_string(value.template, st, depth + 1,
                                      instruction_span), LAMBDA s :
                 Ok(String(s.val), s.st))
      [] value.t = "Strikethrough" ->
             IF has_invocations(value.template)
             THEN Ok(Strikethrough(Template(value.template)), st)
             ELSE Try(evaluate_template_to_value(value.template, st, depth + 1,
                                                 instruction_span), LAMBDA inner :
                      Ok(Strikethrough(Eager(inner.val)), inner.st))
      [] value.t = "Conditional" ->
             Try(evaluate(value.condition, st, depth + 1, instruction_span), LAMBDA c :
                 IF is_truthy(c.val)
                 THEN evaluate(value.true_branch, c.st, depth + 1, instruction_span)
                 ELSE IF value.false_branch # None
                 THEN evaluate(value.false_branch, c.st, depth + 1, instruction_span)
                 ELSE skip_branch(value, c.st, depth, instruction_span))
      [] value.t = "Match" ->
             Try(evaluate(value.value, st, depth + 1, instruction_span), LAMBDA v :
                 match_arms(value, 1, v.val, v.st, depth, instruction_span))
      [] value.t \in {"BlockInvocation", "EvaluatedBlockInvocation"} ->
             Try(evaluate_args(value.args, 1, <<>>, st, depth + 1,
                               instruction_span), LAMBDA a :
                 invoke_block(value.block_ref, a.val, a.st,
                              value.t = "EvaluatedBlockInvocation", depth + 1))

\* execute_instruction (Assignment): store the value and record the write
assign(instruction, r) ==
    Ok(r.val,
       Note(record_fence_write(set_variable(r.st, instruction.variable, r.val),
                               instruction.variable),
            [e |-> "write", name |-> instruction.variable,
             lvl |-> Len(r.st.scopes)]))

\* execute_instruction's map_err: an error without a span gets the
\* instruction's
with_instruction_span(res, span, source_id) ==
    IF ~res.ok /\ res.err.span = None
    THEN Err([res.err EXCEPT !.span = span, !.source_id = source_id], res.st)
    ELSE res

\* Instruction execution: evaluate, and for an assignment store and record
execute_instruction(instruction, st, depth) ==
    with_instruction_span(
        Try(evaluate(instruction.value, st, depth, instruction.span), LAMBDA r :
            IF instruction.t = "Assignment" THEN assign(instruction, r) ELSE r),
        instruction.span, st.registry.source_id)

----------------------------------------------------------------------------
(* execute_block, one step of its loops at a time *)

\* execute_block lines 256-260: hoist, compute the ancestors, push the scope
enter_block(blk, arguments, st) ==
    push_scope(st, Scope(arguments,
                         collect_hoisted_variables(blk.chain),
                         blk.name,
                         lexical_ancestors(st.registry, blk.name)))

\* execute_block line 267
begin_group(st) == push_fence_context(st)

\* execute_block lines 270-281: instruction i (1-based) of group g
step_instruction(blk, g, i, st, depth) ==
    execute_instruction(
        blk.chain.groups[g].instructions[i],
        Note(set_fence_instruction(st, i - 1),
             [e |-> "instr", lvl |-> Len(st.scopes), blk |-> blk.name,
              g |-> g, i |-> i]),
        depth)

\* One warning per name, whatever the number of its spans
first_warning_only(name, spans, k, source_id) ==
    IF spans = <<>> THEN <<>>
    ELSE <<warning(SameFenceMessage(name), spans[1], source_id)>>

RECURSIVE warnings_of(_, _, _, _)
warnings_of(name, spans, k, source_id) ==
    IF k > Len(spans) THEN <<>>
    ELSE <<warning(SameFenceMessage(name), spans[k], source_id)>>
             \o warnings_of(name, spans, k + 1, source_id)

RECURSIVE violation_warnings(_, _, _)
violation_warnings(violations, k, source_id) ==
    IF k > Len(violations) THEN <<>>
    ELSE warnings_of(violations[k].name, violations[k].spans, 1, source_id)
             \o violation_warnings(violations, k + 1, source_id)

\* execute_block lines 283-296: pop the fence context, push its warnings
end_group(st, blk, g) ==
    IF st.fence_stack = <<>> THEN [st EXCEPT !.panic = "no fence context to pop"]
    ELSE LET top == Len(st.fence_stack)
             violations == fence_violations(st.fence_stack[top], st.hash_order)
         IN  Note([st EXCEPT
                      !.fence_stack = SubSeq(@, 1, top - 1),
                      !.diagnostics =
                          @ \o violation_warnings(violations, 1,
                                                  st.registry.source_id)],
                  [e |-> "pop", lvl |-> Len(st.scopes), blk |-> blk.name, g |-> g])

\* A return that leaves the scope on the stack
keep_scope(st) == st

\* execute_block line 299
leave_block(st) == pop_scope(st)

run_instructions(blk, g, i, last, st, depth) ==
    IF i > Len(blk.chain.groups[g].instructions) THEN Ok(last, st)
    ELSE Try(step_instruction(blk, g, i, st, depth), LAMBDA r :
             run_instructions(blk, g, i + 1, r.val, r.st, depth))

run_groups(blk, g, last, st, depth) ==
    IF g > Len(blk.chain.groups) THEN Ok(last, leave_block(st))
    ELSE Try(run_instructions(blk, g, 1, last, begin_group(st), depth), LAMBDA r :
             run_groups(blk, g + 1, r.val, end_group(r.st, blk, g), depth))

execute_block(blk, arguments, st, depth) ==
    IF chain_is_empty(blk.chain) THEN Ok(auto_unwrap_document(blk.body), st)
    ELSE run_groups(blk, 1, Unit, enter_block(blk, arguments, st), depth)

\* str::contains('{'), on the texts of the model's documents
contains_brace(s) == s \in {"{x}"}

\* parse_text_template: the parts of a text, `{expr}` parsed as an
\* expression whose tokens are placed from offset 0
parse_text_template(s) ==
    CASE s = "{x}" -> single_expression(VariableReference("x", Range(0, 1)))
      [] OTHER -> TemplateString(<<Literal(s)>>)

\* evaluate_inline (Strong): the text of the children; a text child that
\* holds a brace is parsed as a template and evaluated
strong_text(children, k, text, st, depth) ==
    IF k > Len(children) THEN Ok(text, st)
    ELSE IF children[k].t = "Text" /\ contains_brace(children[k].s)
    THEN Try(eval_template_string(parse_text_template(children[k].s), st, depth,
                                  Range(0, 0)), LAMBDA r :
             strong_text(children, k + 1, text \o r.val, r.st, depth))
    ELSE Try(evaluate_inline(children[k], st, depth), LAMBDA r :
             strong_text(children, k + 1, text \o display(r.val), r.st, depth))

evaluate_inline(inline, st, depth) ==
    CASE inline.t = "Text" -> Ok(String(inline.s), st)
      [] inline.t = "Strong" ->
             Try(strong_text(inline.children, 1, "", st, depth), LAMBDA r :
                 Ok(Unit, writeln(r.st, r.val)))
      [] inline.t = "Strikethrough" ->
             Try(evaluate_document(<<Paragraph(inline.children)>>, 1, Unit, st,
                                   depth), LAMBDA r :
                 Ok(Strikethrough(Eager(r.val)), r.st))
      [] inline.t = "Link" ->
             invoke_block(parse_runtime_block_ref(inline.dest), <<>>, st, FALSE,
                          depth)
      [] inline.t = "Image" ->
             invoke_block(parse_runtime_block_ref(inline.dest), <<>>, st, TRUE,
                          depth)
      [] OTHER -> Ok(Unit, st)

\* evaluate_document: the loop over the inlines of one paragraph
evaluate_inlines(inlines, k, last, st, depth) ==
    IF k > Len(inlines) THEN Ok(last, st)
    ELSE Try(evaluate_inline(inlines[k], st, depth), LAMBDA r :
             evaluate_inlines(inlines, k + 1, r.val, r.st, depth))

evaluate_document(nodes, k, last, st, depth) ==
    IF k > Len(nodes) THEN Ok(last, st)
    ELSE IF nodes[k].t = "Paragraph"
    THEN Try(evaluate_inlines(nodes[k].inlines, 1, last, st, depth), LAMBDA r :
             evaluate_document(nodes, k + 1, r.val, r.st, depth))
    ELSE evaluate_document(nodes, k + 1, Document(<<nodes[k]>>), st, depth)

invoke_block(block_ref, arguments, st, evaluate_result, depth) ==
    IF too_deep(depth) THEN Err(from_error(StackOverflow), st)
    ELSE
    CASE block_ref.t = "Local" ->
             IF block_name_of(block_ref) \notin DOMAIN st.registry.blocks
             THEN Err(from_error(UndefinedBlock(block_name_of(block_ref))), st)
             ELSE Try(execute_block(st.registry.blocks[block_name_of(block_ref)],
                                    arguments, st, depth + 1), LAMBDA r :
                      IF evaluate_result /\ r.val.t = "Document"
                      THEN evaluate_document(r.val.nodes, 1, Unit, r.st, depth + 1)
                      ELSE r)
      [] block_ref.t = "LocalImport" ->
             Try(get_imported(st, block_ref.path, block_name_of(block_ref)),
                 LAMBDA b :
                 Try(execute_block(b.val, arguments, b.st, depth + 1), LAMBDA r :
                     IF evaluate_result /\ r.val.t = "Document"
                     THEN evaluate_document(r.val.nodes, 1, Unit, r.st, depth + 1)
                     ELSE r))
      [] block_ref.t = "RemoteImport" ->
             Err(from_error(ImportNotImplemented(block_ref.url)), st)

----------------------------------------------------------------------------
(* The programs the model runs.  The entry block M has a chain drawn from  *)
(* a pool of instructions; the blocks it can invoke are fixed.             *)

\* The span of the item at position p of a chain, and of the k-th token in it
ItemSpan(p) == Range(10 * p, 10 * p + 9)

TokenSpan(p, k) == Range(10 * p + k, 10 * p + k + 1)

Var(name, p, k) == VariableReference(name, TokenSpan(p, k))

Invoke(name) == BlockInvocation(<<>>, Local(name))

InvokeEvaluated(name) == EvaluatedBlockInvocation(<<>>, Local(name))

Kinds ==
    {"x = 1", "x = x", "y = x", "**{x}**", "**hi**", "[](#D)", "[](#S)",
     "[](#F)", "[](#W)", "y = false ? ~~1~~"}

\* parse_instruction: the instruction written as `kind` in the item at position p
Instr(kind, p) ==
    CASE kind = "x = 1" -> Assignment("x", NumberLiteral(1), ItemSpan(p))
      [] kind = "x = x" -> Assignment("x", Var("x", p, 4), ItemSpan(p))
      [] kind = "y = x" -> Assignment("y", Var("x", p, 4), ItemSpan(p))
      [] kind = "**{x}**" ->
             ExpressionInstr(PrintExpr(single_expression(Var("x", p, 3))), ItemSpan(p))
      [] kind = "z" -> ExpressionInstr(Var("z", p, 0), ItemSpan(p))
      [] kind = "**hi**" ->
             ExpressionInstr(PrintExpr(TemplateString(<<Literal("hi")>>)), ItemSpan(p))
      [] kind = "y = false ? ~~1~~" ->
             Assignment("y",
                 Conditional(BooleanLiteral(FALSE),
                             StrikethroughExpr(TemplateString(<<Literal("1")>>)),
                             None),
                 ItemSpan(p))
      [] kind = "y = false ? **hi**" ->
             Assignment("y",
                 Conditional(BooleanLiteral(FALSE),
                             PrintExpr(TemplateString(<<Literal("hi")>>)),
                             None),
                 ItemSpan(p))
      [] kind = "**{y == y}**" ->
             ExpressionInstr(
                 PrintExpr(single_expression(
                     BinaryOperation("Equality", Var("y", p, 3), Var("y", p, 8)))),
                 ItemSpan(p))
      [] kind = "y = false ? x" ->
             Assignment("y",
                 Conditional(BooleanLiteral(FALSE), Var("x", p, 12), None),
                 ItemSpan(p))
      [] kind = "x = 2" -> Assignment("x", NumberLiteral(2), ItemSpan(p))
      [] kind = "**{-y}**" ->
             ExpressionInstr(
                 PrintExpr(single_expression(
                     UnaryOperation("Negation", Var("y", p, 4)))),
                 ItemSpan(p))
      [] kind = "x = -y" ->
             Assignment("x", UnaryOperation("Negation", Var("y", p, 5)), ItemSpan(p))
      [] kind = "[](#D)" -> ExpressionInstr(Invoke("D"), ItemSpan(p))
      [] kind = "![](#U)" -> ExpressionInstr(InvokeEvaluated("U"), ItemSpan(p))
      [] kind = "[](#S)" -> ExpressionInstr(Invoke("S"), ItemSpan(p))
      [] kind = "[](#F)" -> ExpressionInstr(Invoke("F"), ItemSpan(p))
      [] kind = "[](#W)" -> ExpressionInstr(Invoke("W"), ItemSpan(p))
      [] kind = "[](#R)" -> ExpressionInstr(Invoke("R"), ItemSpan(p))
      [] kind = "[](#Q)" -> ExpressionInstr(Invoke("Q"), ItemSpan(p))
      [] kind = "![](#P)" -> ExpressionInstr(InvokeEvaluated("P"), ItemSpan(p))
      [] kind = "![](#B)" -> ExpressionInstr(InvokeEvaluated("B"), ItemSpan(p))
      [] kind = "![](#V)" -> ExpressionInstr(InvokeEvaluated("V"), ItemSpan(p))
      [] kind = "![](#N)" -> ExpressionInstr(InvokeEvaluated("N"), ItemSpan(p))

\* process_ordered_list lines 246-262: items with consecutive equal fence
\* indices fuse into one FenceGroup.  items[p] = [fence_index, instruction].
RECURSIVE group_items(_, _, _)
group_items(items, p, groups) ==
    IF p > Len(items) THEN groups
    ELSE LET n == Len(groups)
         IN  group_items(items, p + 1,
                 IF n > 0 /\ groups[n].index = items[p].fence_index
                 THEN [groups EXCEPT ![n].instructions =
                                          Append(@, items[p].instruction)]
                 ELSE Append(groups, FenceGroup(items[p].fence_index,
                                                <<items[p].instruction>>)))

ChainOfItems(items) == Chain(group_items(items, 1, <<>>))

\* The ordered lists of at most MaxInstr items: each item is one of Kinds, the
\* first is numbered 1 and each next one repeats the number or adds one.
ItemLists ==
    UNION {
        { [p \in 1..n |->
              [fence_index |-> 1 + Cardinality({q \in 1..(p - 1) : cut[q]}),
               instruction |-> Instr(kinds[p], p)]]
          : kinds \in [1..n -> Kinds], cut \in [1..(n - 1) -> BOOLEAN] }
        : n \in 1..MaxInstr }

\* The ordered list written as `lines`: lines[p] = <<number, instruction text>>
Items(lines) ==
    [p \in 1..Len(lines) |->
        [fence_index |-> lines[p][1], instruction |-> Instr(lines[p][2], p)]]

\* Chains of the entry block M written out in full
Scenarios ==
    {Items(<<<<1, "y = false ? **hi**">>, <<2, "x = -y">>>>),
     Items(<<<<1, "y = false ? **hi**">>, <<2, "**{y == y}**">>>>),
     Items(<<<<1, "x = 1">>, <<2, "y = false ? x">>, <<3, "**{-y}**">>,
             <<4, "x = 2">>, <<5, "**{-y}**">>>>),
     Items(<<<<1, "x = 1">>, <<1, "![](#U)">>>>),
     Items(<<<<1, "x = 1">>, <<2, "![](#U)">>>>)}

NoBody == Document(<<>>)

\* ## D: a sub-block of M that reads M's x
BlockD ==
    Block("D", 2,
          ChainOfItems(<<[fence_index |-> 1,
                          instruction |-> Instr("**{x}**", 1)]>>),
          <<>>, NoBody)

\* ## W: a sub-block of M with an x of its own, read in the fence that assigns it
BlockW ==
    Block("W", 2,
          ChainOfItems(<<[fence_index |-> 1, instruction |-> Instr("x = 1", 1)],
                         [fence_index |-> 1, instruction |-> Instr("**{x}**", 2)]>>),
          <<>>, NoBody)

\* # S: a top-level block that reads an x it does not assign
BlockS ==
    Block("S", 1,
          ChainOfItems(<<[fence_index |-> 1,
                          instruction |-> Instr("**{x}**", 1)]>>),
          <<>>, NoBody)

\* ## G: reads z, which no block assigns
BlockG ==
    Block("G", 2,
          ChainOfItems(<<[fence_index |-> 1, instruction |-> Instr("z", 1)]>>),
          <<>>, NoBody)

\* # F: y = 2 and then an invocation of G, which fails
BlockF ==
    Block("F", 1,
          ChainOfItems(<<[fence_index |-> 1,
                          instruction |-> Assignment("y", NumberLiteral(2), ItemSpan(1))],
                         [fence_index |-> 2,
                          instruction |-> ExpressionInstr(Invoke("G"), ItemSpan(2))]>>),
          <<BlockG>>, NoBody)

\* # T: no chain, a body of one paragraph
BlockT ==
    Block("T", 1, Chain(<<>>), <<>>, Document(<<Paragraph(<<Text("hello")>>)>>))

\* # U: no chain, a body that prints x
BlockU ==
    Block("U", 1, Chain(<<>>), <<>>,
          Document(<<Paragraph(<<Strong(<<Text("{x}")>>)>>)>>))

\* # R: invokes itself from its chain
BlockR == Block("R", 1, ChainOfItems(Items(<<<<1, "[](#R)">>>>)), <<>>, NoBody)

\* # P and # Q: invoke each other from their chains
BlockP == Block("P", 1, ChainOfItems(Items(<<<<1, "[](#Q)">>>>)), <<>>, NoBody)

BlockQ == Block("Q", 1, ChainOfItems(Items(<<<<1, "![](#P)">>>>)), <<>>, NoBody)

\* # B: no chain, a body whose image invokes B; # E evaluates that body
BlockB ==
    Block("B", 1, Chain(<<>>), <<>>,
          Document(<<Paragraph(<<Image(<<"#", "B">>)>>)>>))

BlockE == Block("E", 1, ChainOfItems(Items(<<<<1, "![](#B)">>>>)), <<>>, NoBody)

\* # V: no chain, a body that prints and whose link invokes C; # C evaluates
\* that body
BlockV ==
    Block("V", 1, Chain(<<>>), <<>>,
          Document(<<Paragraph(<<Strong(<<Text("v")>>), Link(<<"#", "C">>)>>)>>))

BlockC == Block("C", 1, ChainOfItems(Items(<<<<1, "![](#V)">>>>)), <<>>, NoBody)

\* # K prints; # N: no chain, a body that prints, invokes K and ends with a
\* rule; # H evaluates that body
BlockK == Block("K", 1, ChainOfItems(Items(<<<<1, "**hi**">>>>)), <<>>, NoBody)

BlockN ==
    Block("N", 1, Chain(<<>>), <<>>,
          Document(<<Paragraph(<<Strong(<<Text("n")>>), Link(<<"#", "K">>)>>),
                     [t |-> "Rule"]>>))

BlockH == Block("H", 1, ChainOfItems(Items(<<<<1, "![](#N)">>>>)), <<>>, NoBody)

\* The blocks that never stop invoking, and H
RecursiveProgram ==
    [blocks |-> <<BlockR, BlockP, BlockQ, BlockE, BlockB, BlockC, BlockV,
                  BlockH, BlockN, BlockK>>,
     source_id |-> 0]

RecursiveEntries == {"R", "P", "E", "C"}

\* ## Echo: x = #* and then a print of x (integration test spread_argument)
BlockEcho ==
    Block("Echo", 2,
          ChainOfItems(<<[fence_index |-> 1,
                          instruction |-> Assignment("x", SpreadArgumentReference,
                                                     ItemSpan(1))],
                         [fence_index |-> 2,
                          instruction |-> Instr("**{x}**", 2)]>>),
          <<>>, NoBody)

\* The argument lists written between the brackets of the link to Echo
ArgLists ==
    {<<>>, <<NumberLiteral(42)>>, <<StringLiteral("s")>>,
     <<NumberLiteral(1), StringLiteral("s")>>}

\* # Main: [args](#Echo)
SpreadProgram(args) ==
    [blocks |-> <<Block("Main", 1,
                        ChainOfItems(<<[fence_index |-> 1,
                                        instruction |->
                                            ExpressionInstr(
                                                BlockInvocation(args, Local("Echo")),
                                                ItemSpan(1))]>>),
                        <<BlockEcho>>, NoBody)>>,
     source_id |-> 0]

----------------------------------------------------------------------------
(* The parser of match expressions (parser/expression.rs).  A text is      *)
(* written as its lexemes; the events of an arm are texts and bold spans.  *)

TokenIdent(name, span) == [t |-> "Ident", name |-> name, span |-> span]

TokenNumber(n) == [t |-> "Number", n |-> n]

TokenStringLit(str) == [t |-> "StringLit", s |-> str]

TokenColon == [t |-> "Colon"]

TokenPipe == [t |-> "Pipe"]

TokenUnderscore == [t |-> "Underscore"]

TokenBold(template) == [t |-> "Bold", template |-> template]

\* Event::Text with the offset it starts at, and the events of `**str**`
TextEvent(lexemes, start) == [t |-> "Text", lexemes |-> lexemes, start |-> start]

StrongEvent(str) == [t |-> "Strong", s |-> str]

\* The number a run of digits stands for, on the numerals the model uses
Numerals == [lexeme \in {"1", "2", "42"} |->
                CASE lexeme = "1" -> 1 [] lexeme = "2" -> 2 [] lexeme = "42" -> 42]

\* The contents of a quoted string, on the strings the model uses
Quoted == [lexeme \in {"\"one\"", "\"unknown\"", "\"other\"", "\"hi\""} |->
              CASE lexeme = "\"one\"" -> "one"
                [] lexeme = "\"unknown\"" -> "unknown"
                [] lexeme = "\"other\"" -> "other"
                [] lexeme = "\"hi\"" -> "hi"]

\* tokenize_text: a lexeme that starts with a letter or `_` is an
\* identifier (lines 521-533), so `_` is the identifier "_"
RECURSIVE tokenize_text(_, _, _)
tokenize_text(lexemes, k, base_offset) ==
    IF k > Len(lexemes) THEN <<>>
    ELSE <<CASE lexemes[k] \in DOMAIN Numerals -> TokenNumber(Numerals[lexemes[k]])
             [] lexemes[k] \in DOMAIN Quoted -> TokenStringLit(Quoted[lexemes[k]])
             [] lexemes[k] = ":" -> TokenColon
             [] lexemes[k] = "|" -> TokenPipe
             [] OTHER -> TokenIdent(lexemes[k],
                                    Range(base_offset + k, base_offset + k + 1))>>
         \o tokenize_text(lexemes, k + 1, base_offset)

\* tokenize_events
RECURSIVE tokenize_events(_, _)
tokenize_events(events, k) ==
    IF k > Len(events) THEN <<>>
    ELSE (IF events[k].t = "Text"
          THEN tokenize_text(events[k].lexemes, 1, events[k].start)
          ELSE <<TokenBold(TemplateString(<<Literal(events[k].s)>>))>>)
         \o tokenize_events(events, k + 1)

\* str::split_once(":"): the position of the first ":", 0 if there is none
first_colon(lexemes) ==
    IF \E k \in 1..Len(lexemes) : lexemes[k] = ":"
    THEN CHOOSE k \in 1..Len(lexemes) :
             lexemes[k] = ":" /\ \A j \in 1..(k - 1) : lexemes[j] # ":"
    ELSE 0

\* collect_single_match_arm lines 411-441: the events before the first colon
\* of a text are the pattern's, the others the result's
RECURSIVE split_arm(_, _, _, _, _)
split_arm(events, k, pattern_events, result_events, writing_to_pattern) ==
    IF k > Len(events)
    THEN [pattern_events |-> pattern_events, result_events |-> result_events]
    ELSE IF /\ events[k].t = "Text"
            /\ ~writing_to_pattern
            /\ first_colon(events[k].lexemes) # 0
    THEN split_arm(events, k + 1,
             Append(pattern_events,
                    TextEvent(SubSeq(events[k].lexemes, 1,
                                     first_colon(events[k].lexemes) - 1),
                              events[k].start)),
             Append(result_events,
                    TextEvent(SubSeq(events[k].lexemes,
                                     first_colon(events[k].lexemes) + 1,
                                     Len(events[k].lexemes)),
                              events[k].start + first_colon(events[k].lexemes))),
             TRUE)
    ELSE IF writing_to_pattern
    THEN split_arm(events, k + 1, pattern_events, Append(result_events, events[k]),
                   writing_to_pattern)
    ELSE split_arm(events, k + 1, Append(pattern_events, events[k]), result_events,
                   writing_to_pattern)

MatchArm(pattern, result_tokens, is_otherwise) ==
    [pattern |-> pattern, result |-> result_tokens, is_otherwise |-> is_otherwise]

\* collect_single_match_arm lines 445-446
starts_with_otherwise(pattern) ==
    /\ Len(pattern) >= 2
    /\ pattern[1].t = "Ident"
    /\ pattern[1].name = "otherwise"

\* collect_single_match_arm lines 444-463, from the tokens of the pattern
arm_of_tokens(pattern, result_events) ==
    IF starts_with_otherwise(pattern) /\ result_events = <<>>
    THEN MatchArm(SubSeq(pattern, 1, 2),
                  IF Len(pattern) >= 3 /\ pattern[3] = TokenColon
                  THEN SubSeq(pattern, 4, Len(pattern))
                  ELSE SubSeq(pattern, 3, Len(pattern)),
                  TRUE)
    ELSE MatchArm(pattern, tokenize_events(result_events, 1),
                  starts_with_otherwise(pattern))

\* collect_single_match_arm
collect_single_match_arm(events) ==
    arm_of_tokens(
        tokenize_events(split_arm(events, 1, <<>>, <<>>, FALSE).pattern_events, 1),
        split_arm(events, 1, <<>>, <<>>, FALSE).result_events)

\* ParseError
ParseError(message) == [ok |-> FALSE, message |-> message]

Parsed(v) == [ok |-> TRUE, val |-> v]

\* parse_single_pattern
parse_single_pattern(tokens) ==
    IF Len(tokens) # 1 THEN ParseError("expected pattern")
    ELSE CASE tokens[1].t = "Number" -> Parsed(TemplateNumberLiteral(tokens[1].n))
           [] tokens[1].t = "StringLit" -> Parsed(TemplateStringLiteral(tokens[1].s))
           [] tokens[1].t = "Underscore" -> Parsed(TemplateWildcard)
           [] tokens[1].t = "Ident" -> Parsed(TemplateBinding(tokens[1].name))
           [] OTHER -> ParseError("expected pattern")

\* slice::split at the Pipe tokens
RECURSIVE split_at_pipes(_, _, _)
split_at_pipes(tokens, k, current) ==
    IF k > Len(tokens) THEN <<current>>
    ELSE IF tokens[k].t = "Pipe"
    THEN <<current>> \o split_at_pipes(tokens, k + 1, <<>>)
    ELSE split_at_pipes(tokens, k + 1, Append(current, tokens[k]))

\* parse_pattern: one pattern, or an alternation of the patterns between pipes
parse_pattern(tokens) ==
    IF \E k \in 1..Len(split_at_pipes(tokens, 1, <<>>)) :
           ~parse_single_pattern(split_at_pipes(tokens, 1, <<>>)[k]).ok
    THEN ParseError("expected pattern")
    ELSE IF Len(split_at_pipes(tokens, 1, <<>>)) = 1
    THEN parse_single_pattern(tokens)
    ELSE Parsed(TemplateAlternation(
             [k \in 1..Len(split_at_pipes(tokens, 1, <<>>)) |->
                 parse_single_pattern(split_at_pipes(tokens, 1, <<>>)[k]).val]))

\* parse_arm_result (parse_expr), for the results of one token
parse_arm_result(tokens) ==
    IF Len(tokens) # 1 THEN ParseError("unexpected token")
    ELSE CASE tokens[1].t = "Number" -> Parsed(NumberLiteral(tokens[1].n))
           [] tokens[1].t = "StringLit" -> Parsed(StringLiteral(tokens[1].s))
           [] tokens[1].t = "Ident" ->
                  Parsed(VariableReference(tokens[1].name, tokens[1].span))
           [] tokens[1].t = "Bold" -> Parsed(PrintExpr(tokens[1].template))
           [] OTHER -> ParseError("unexpected token")

\* build_match_expr lines 994-998: the binding of an otherwise clause
otherwise_binding(pattern) ==
    IF pattern = <<>> THEN Parsed(None)
    ELSE IF pattern[1].t = "Ident" THEN Parsed(Some(pattern[1].name))
    ELSE IF pattern[1].t = "Underscore" THEN Parsed(None)
    ELSE ParseError("expected binding")

\* build_match_expr: the loop over the arms from the k-th on
RECURSIVE build_arms(_, _, _, _, _)
build_arms(scrutinee, match_arms_, k, parsed_arms, otherwise) ==
    IF k > Len(match_arms_) THEN Parsed(Match(scrutinee, parsed_arms, otherwise))
    ELSE IF ~parse_arm_result(match_arms_[k].result).ok
    THEN parse_arm_result(match_arms_[k].result)
    ELSE IF match_arms_[k].is_otherwise
    THEN IF ~otherwise_binding(match_arms_[k].pattern).ok
         THEN otherwise_binding(match_arms_[k].pattern)
         ELSE build_arms(scrutinee, match_arms_, k + 1, parsed_arms,
                  Some([binding |-> otherwise_binding(match_arms_[k].pattern).val,
                        result |-> parse_arm_result(match_arms_[k].result).val]))
    ELSE IF ~parse_pattern(match_arms_[k].pattern).ok
    THEN parse_pattern(match_arms_[k].pattern)
    ELSE build_arms(scrutinee, match_arms_, k + 1,
             Append(parsed_arms,
                    [template |-> parse_pattern(match_arms_[k].pattern).val,
                     result |-> parse_arm_result(match_arms_[k].result).val]),
             otherwise)

\* ExprParser::build_match_expr
build_match_expr(scrutinee, match_arms_) ==
    build_arms(scrutinee, match_arms_, 1, <<>>, None)

\* parse_prefix (Token::Match): `match` scrutinee and the arms of the list
\* under it, each arm given as its events
parse_match(scrutinee_token, arms) ==
    IF ~parse_arm_result(<<scrutinee_token>>).ok
    THEN parse_arm_result(<<scrutinee_token>>)
    ELSE build_match_expr(parse_arm_result(<<scrutinee_token>>).val,
                          [k \in 1..Len(arms) |-> collect_single_match_arm(arms[k])])

\* The arms the model's match expressions are made of
ArmOne == <<TextEvent(<<"1", ":", "\"one\"">>, 20)>>

ArmAlternation == <<TextEvent(<<"2", "|", "42", ":">>, 30), StrongEvent("arm")>>

ArmBinding == <<TextEvent(<<"k", ":", "k">>, 40)>>

ArmOtherwiseN == <<TextEvent(<<"otherwise", "n", ":", "n">>, 50)>>

ArmOtherwise == <<TextEvent(<<"otherwise", ":", "\"unknown\"">>, 60)>>

ArmOtherwiseUnderscore == <<TextEvent(<<"otherwise", "_", ":", "\"other\"">>, 70)>>

ArmString == <<TextEvent(<<"\"hi\"", ":">>, 80), StrongEvent("arm")>>

ArmOtherwiseNoColon == <<TextEvent(<<"otherwise", "n">>, 90), StrongEvent("arm")>>

ArmPool ==
    {ArmOne, ArmAlternation, ArmBinding, ArmOtherwiseN, ArmOtherwise,
     ArmOtherwiseUnderscore, ArmString, ArmOtherwiseNoColon}

\* The lists of at most MaxArms arms
ArmLists == UNION {[1..n -> ArmPool] : n \in 1..MaxArms}

ScrutineeTokens ==
    {TokenNumber(1), TokenNumber(42),
     TokenBold(TemplateString(<<Literal("hi")>>))}

\* # X / 1. x = match <scrutinee> / <arms> / 2. **{x}**
MatchProgram(scrutinee_token, arms) ==
    [blocks |->
        <<Block("X", 1,
                ChainOfItems(
                    <<[fence_index |-> 1,
                       instruction |->
                           Assignment("x", parse_match(scrutinee_token, arms).val,
                                      ItemSpan(1))],
                      [fence_index |-> 2, instruction |-> Instr("**{x}**", 2)]>>),
                <<>>, NoBody)>>,
     source_id |-> 0]

BlockM(chain) == Block("M", 1, chain, <<BlockD, BlockW>>, NoBody)

\* The destinations of the links that import: `path#block`
ImportDests ==
    {<<"lib", ".md", "#", "A">>,
     <<"lib", "#", "B">>,
     <<".", "/", "sub", "/", "..", "/", "lib", ".md", "#", "A">>,
     <<"alias", ".md", "#", "B">>,
     <<"sub", "/", "a", ".md", "#", "X">>,
     <<"sub", "/", "a", "#", "Y">>,
     <<"b", "#", "B">>,
     <<"lib", "#", "nope">>,
     <<"bad", ".md", "#", "A">>,
     <<"missing", "#", "A">>,
     <<"lib", ".txt", "#", "A">>}

\* parse_block_reference: the instruction `[](dest)` in the item at position p
ImportInstr(dest, p) ==
    ExpressionInstr(BlockInvocation(<<>>, parse_runtime_block_ref(dest)),
                    ItemSpan(p))

\* The ordered lists of at most MaxImports importing items, numbered 1, 2, ...
ImportLists ==
    UNION {
        { [p \in 1..n |->
              [fence_index |-> p, instruction |-> ImportInstr(dests[p], p)]]
          : dests \in [1..n -> ImportDests] }
        : n \in 1..MaxImports }

\* # I: the entry block of the programs that import
BlockI(chain) == Block("I", 1, chain, <<>>, NoBody)

ImportProgram(chain) == [blocks |-> <<BlockI(chain)>>, source_id |-> 0]

\* # I with the sub-block ## B, the name of a block of lib.md and of b.md
NestedImportProgram(chain) ==
    [blocks |-> <<Block("I", 1, chain, <<Block("B", 2, Chain(<<>>), <<>>, NoBody)>>,
                        NoBody)>>,
     source_id |-> 0]

\* # Ab and # aB: two blocks whose names differ only by case
CaseProgram ==
    [blocks |-> <<Block("Ab", 1, ChainOfItems(Items(<<<<1, "**hi**">>>>)), <<>>,
                        NoBody),
                  Block("aB", 1, ChainOfItems(Items(<<<<1, "x = 1">>>>)), <<>>,
                        NoBody),
                  BlockT>>,
     source_id |-> 0]

Program(chain) ==
    [blocks |-> <<BlockM(chain), BlockS, BlockF, BlockT, BlockU>>, source_id |-> 0]

EmptyProgram == [blocks |-> <<>>, source_id |-> 0]

DefaultChain ==
    ChainOfItems(<<[fence_index |-> 1, instruction |-> Instr("x = 1", 1)]>>)

\* The iteration orders a HashMap over the variable names can have
HashOrders == {<<"x", "y">>, <<"y", "x">>}

\* str::to_lowercase, on the names the model uses
to_lowercase(name) ==
    CASE name = "M" -> "m"
      [] name = "D" -> "d"
      [] name = "W" -> "w"
      [] name = "S" -> "s"
      [] name = "F" -> "f"
      [] name = "G" -> "g"
      [] name = "T" -> "t"
      [] name = "U" -> "u"
      [] name \in {"Ab", "aB", "AB"} -> "ab"
      [] name = "Main" -> "main"
      [] name = "Echo" -> "echo"
      [] OTHER -> name

\* A lookup by the exact name only
get_entry_exact(reg, name) ==
    IF name \in DOMAIN reg.blocks THEN {reg.blocks[name]} ELSE {}

\* BlockRegistry::get_entry: exact match first, then the first block, in the
\* HashMap's order, whose lowercased name equals the lowercased query.  The
\* result is a set: the blocks `find` can return.
get_entry(reg, name) ==
    IF name \in DOMAIN reg.blocks THEN {reg.blocks[name]}
    ELSE {reg.blocks[k] : k \in {j \in DOMAIN reg.blocks :
                                     to_lowercase(j) = to_lowercase(name)}}

----------------------------------------------------------------------------
(* The structural parser (parser/structural.rs).  The source is the list   *)
(* of events pulldown-cmark makes of it; a text is written as its lexemes, *)
(* words and runs of whitespace.                                           *)

StartHeading(level) == [t |-> "StartHeading", level |-> level]

EndHeading == [t |-> "EndHeading"]

CodeEvent(lexemes) == [t |-> "Code", lexemes |-> lexemes]

StartImage == [t |-> "StartImage"]

EndImage == [t |-> "EndImage"]

StartList == [t |-> "StartList"]

EndList == [t |-> "EndList"]

\* Start(Tag::Item); `marker` is the text of the source where the item starts
StartItem(marker) == [t |-> "StartItem", marker |-> marker]

EndItem == [t |-> "EndItem"]

StartParagraph == [t |-> "StartParagraph"]

EndParagraph == [t |-> "EndParagraph"]

Rule == [t |-> "Rule"]

Html == [t |-> "Html"]

\* The runs of whitespace among the lexemes
Whitespace == {" ", "  ", "\t"}

\* BlockBuilder of a heading just read
BlockBuilder(name, level) ==
    [name |-> name, level |-> level, chain_groups |-> <<>>, children |-> <<>>,
     body_nodes |-> <<>>]

\* BlockBuilder::into_block
into_block(builder) ==
    Block(builder.name, builder.level,
          IF builder.chain_groups = <<>> THEN Chain(<<>>)
          ELSE Chain(builder.chain_groups),
          builder.children, Document(builder.body_nodes))

\* ParseState::new; `i` is the position of process_events in the events
NewParseState ==
    [i |-> 1, block_stack |-> <<>>, top_blocks |-> <<>>, errors |-> <<>>]

\* The end of the events of the heading that starts before position i
RECURSIVE heading_end(_, _)
heading_end(events, i) ==
    IF i > Len(events) THEN i
    ELSE IF events[i].t = "EndHeading" THEN i + 1
    ELSE heading_end(events, i + 1)

\* collect_heading_text: the lexemes of the Text and Code events up to
\* End(Heading)
RECURSIVE collect_heading_text(_, _)
collect_heading_text(events, i) ==
    IF i > Len(events) \/ events[i].t = "EndHeading" THEN <<>>
    ELSE (IF events[i].t \in {"Text", "Code"} THEN events[i].lexemes ELSE <<>>)
             \o collect_heading_text(events, i + 1)

\* str::split_whitespace: the words between the runs of whitespace; lexemes
\* that touch are one word
RECURSIVE split_whitespace(_, _, _)
split_whitespace(lexemes, k, word) ==
    IF k > Len(lexemes) THEN (IF word = "" THEN <<>> ELSE <<word>>)
    ELSE IF lexemes[k] \in Whitespace
    THEN (IF word = "" THEN <<>> ELSE <<word>>)
             \o split_whitespace(lexemes, k + 1, "")
    ELSE split_whitespace(lexemes, k + 1, word \o lexemes[k])

\* [&str]::join(" ")
RECURSIVE join_words(_, _)
join_words(words, k) ==
    IF k > Len(words) THEN ""
    ELSE words[k] \o (IF k < Len(words) THEN " " ELSE "")
             \o join_words(words, k + 1)

\* normalize_block_name
normalize_block_name(lexemes) == join_words(split_whitespace(lexemes, 1, ""), 1)

\* The block on top of the stack is closed: it becomes the last child of
\* the builder below it, or the last top-level block
close_top(ps) ==
    IF Len(ps.block_stack) > 1
    THEN [ps EXCEPT
             !.block_stack =
                 [SubSeq(@, 1, Len(@) - 1) EXCEPT
                     ![Len(ps.block_stack) - 1].children =
                         Append(@, into_block(ps.block_stack[Len(ps.block_stack)]))]]
    ELSE [ps EXCEPT
             !.block_stack = <<>>,
             !.top_blocks =
                 Append(@, into_block(ps.block_stack[Len(ps.block_stack)]))]

\* A heading that closes nothing
close_nothing(ps, new_level) == ps

\* ParseState::close_blocks_to_level
RECURSIVE close_blocks_to_level(_, _)
close_blocks_to_level(ps, new_level) ==
    IF /\ ps.block_stack # <<>>
       /\ ps.block_stack[Len(ps.block_stack)].level >= new_level
    THEN close_blocks_to_level(close_top(ps), new_level)
    ELSE ps

\* process_events, Start(Tag::Heading) (lines 97-119)
process_heading(ps, events) ==
    [close_blocks_to_level(ps, events[ps.i].level) EXCEPT
        !.block_stack =
            Append(@, BlockBuilder(
                          normalize_block_name(collect_heading_text(events, ps.i + 1)),
                          events[ps.i].level)),
        !.i = heading_end(events, ps.i + 1)]

\* The number written in each list marker of the model
MarkerNumbers ==
    [marker \in {"1.", "2.", "2)"} |->
        CASE marker = "1." -> 1 [] marker = "2." -> 2 [] marker = "2)" -> 2]

\* extract_item_number and parse_list_marker
extract_item_number(marker) ==
    IF marker \in DOMAIN MarkerNumbers THEN MarkerNumbers[marker] ELSE 1

\* The instructions an item can hold; any other text is a parse error
ItemKinds == {"x = 1", "**hi**"}

\* collect_item_events: the events up to the End(Item) of the item
RECURSIVE collect_item_events(_, _)
collect_item_events(events, i) ==
    IF i > Len(events) \/ events[i].t = "EndItem" THEN <<>>
    ELSE <<events[i]>> \o collect_item_events(events, i + 1)

\* The position after the End(Item) of the item
RECURSIVE item_end(_, _)
item_end(events, i) ==
    IF i > Len(events) THEN i
    ELSE IF events[i].t = "EndItem" THEN i + 1
    ELSE item_end(events, i + 1)

\* process_ordered_list lines 221-241: the items of the list that starts
\* before position i, each with its fence index and its events
RECURSIVE collect_items(_, _, _)
collect_items(events, i, items) ==
    IF i > Len(events) THEN [items |-> items, i |-> i]
    ELSE IF events[i].t = "EndList" THEN [items |-> items, i |-> i + 1]
    ELSE IF events[i].t = "StartItem"
    THEN collect_items(events, item_end(events, i + 1),
             Append(items, [fence_index |-> extract_item_number(events[i].marker),
                            item_events |-> collect_item_events(events, i + 1)]))
    ELSE collect_items(events, i + 1, items)

\* expression::parse_instruction of the events of the item at position p
parse_item(item_events, p) ==
    IF /\ item_events # <<>>
       /\ item_events[1].t = "Text"
       /\ item_events[1].lexemes[1] \in ItemKinds
    THEN Parsed(Instr(item_events[1].lexemes[1], p))
    ELSE ParseError("unexpected token")

\* process_ordered_list lines 256-267: the instruction joins the last group
\* when that group has its fence index, and opens a group otherwise
push_instruction(chain_groups, fence_index, instruction) ==
    IF /\ chain_groups # <<>>
       /\ chain_groups[Len(chain_groups)].index = fence_index
    THEN [chain_groups EXCEPT ![Len(chain_groups)].instructions =
                                  Append(@, instruction)]
    ELSE Append(chain_groups, FenceGroup(fence_index, <<instruction>>))

\* process_ordered_list lines 248-274: the loop over the items
RECURSIVE group_parsed_items(_, _, _)
group_parsed_items(ps, items, p) ==
    IF p > Len(items) THEN ps
    ELSE IF parse_item(items[p].item_events, p).ok
    THEN group_parsed_items(
             [ps EXCEPT !.block_stack[Len(ps.block_stack)].chain_groups =
                 push_instruction(@, items[p].fence_index,
                                  parse_item(items[p].item_events, p).val)],
             items, p + 1)
    ELSE group_parsed_items(
             [ps EXCEPT !.errors =
                 Append(@, parse_item(items[p].item_events, p).message)],
             items, p + 1)

\* ParseState::process_ordered_list
process_ordered_list(ps, events) ==
    IF ps.block_stack = <<>>
    THEN [ps EXCEPT !.i = collect_items(events, ps.i + 1, <<>>).i]
    ELSE [group_parsed_items(ps, collect_items(events, ps.i + 1, <<>>).items, 1)
             EXCEPT !.i = collect_items(events, ps.i + 1, <<>>).i]

\* The end of the paragraph that starts before position i
RECURSIVE paragraph_end(_, _)
paragraph_end(events, i) ==
    IF i > Len(events) THEN i
    ELSE IF events[i].t = "EndParagraph" THEN i + 1
    ELSE paragraph_end(events, i + 1)

\* collect_inlines of a paragraph: its texts
RECURSIVE collect_inlines(_, _)
collect_inlines(events, i) ==
    IF i > Len(events) \/ events[i].t = "EndParagraph" THEN <<>>
    ELSE (IF events[i].t = "Text" THEN <<Text(join_words(events[i].lexemes, 1))>>
          ELSE <<>>)
             \o collect_inlines(events, i + 1)

\* A node of the body goes to the builder on top of the stack, if any
push_body_node(ps, node) ==
    IF ps.block_stack = <<>> THEN ps
    ELSE [ps EXCEPT !.block_stack[Len(ps.block_stack)].body_nodes = Append(@, node)]

\* ParseState::finalize lines 542-553: every builder left is closed
RECURSIVE close_all(_)
close_all(ps) ==
    IF ps.block_stack = <<>> THEN ps ELSE close_all(close_top(ps))

----------------------------------------------------------------------------
(* The state machine: execute_program_entry, with the entry block's        *)
(* execute_block run one loop step at a time.                              *)

\* The interpreter state as the record the operators thread
State ==
    [registry |-> registry, hash_order |-> hash_order, scopes |-> scopes,
     fence_stack |-> fence_stack, output |-> output, diagnostics |-> diagnostics,
     trace |-> trace, panic |-> panic]

Set(st) ==
    /\ registry' = st.registry
    /\ hash_order' = st.hash_order
    /\ scopes' = st.scopes
    /\ fence_stack' = st.fence_stack
    /\ output' = st.output
    /\ diagnostics' = st.diagnostics
    /\ trace' = st.trace
    /\ panic' = st.panic

\* Result<(RuntimeValue, Vec<DiagnosticError>), DiagnosticError>
ReturnOk(v, diags) == [ok |-> TRUE, val |-> v, diagnostics |-> diags]

ReturnErr(d) == [ok |-> FALSE, err |-> d]

EmptyRegistry ==
    [blocks |-> EmptyMap, parent_map |-> EmptyMap, base_dir |-> <<>>,
     import_cache |-> EmptyMap, source_id |-> 0]

\* The state execute_program_entry is called in
Start ==
    /\ hash_order \in HashOrders
    /\ registry = EmptyRegistry
    /\ scopes = <<>>
    /\ fence_stack = <<>>
    /\ output = <<>>
    /\ diagnostics = <<>>
    /\ trace = <<>>
    /\ panic = ""
    /\ block = None
    /\ group_idx = 0
    /\ instr_idx = 0
    /\ last_value = Unit
    /\ pc = "start"
    /\ result = None
    /\ exec_depth = 0
    /\ doc_eval = None
    /\ callers = <<>>
    /\ source_events = <<>>
    /\ parse_state = None
    /\ walk = None

\* The programs and entry names execute_program_entry is called with
Inputs ==
    \/ /\ entry_name = "M"
       /\ \E items \in ItemLists \cup Scenarios :
              program = Program(ChainOfItems(items))
    \/ /\ entry_name \in {"m", "S", "F", "T", "W", "nope", "s", "w", "t"}
       /\ program = Program(DefaultChain)
    \/ /\ entry_name \in {"Ab", "aB", "AB", "ab", "t"}
       /\ program = CaseProgram
    \/ /\ entry_name = "M"
       /\ program = EmptyProgram
    \/ /\ entry_name = "I"
       /\ \E items \in ImportLists :
              program = ImportProgram(ChainOfItems(items))
    \/ /\ entry_name = "I"
       /\ \E items \in ImportLists :
              program = NestedImportProgram(ChainOfItems(items))
    \/ /\ entry_name = "X"
       /\ \E scrutinee_token \in ScrutineeTokens, arms \in ArmLists :
              /\ parse_match(scrutinee_token, arms).ok
              /\ program = MatchProgram(scrutinee_token, arms)
    \/ /\ entry_name = "Main"
       /\ \E args \in ArgLists : program = SpreadProgram(args)

\* The same, and the entries that never stop invoking
StepInputs ==
    \/ Inputs
    \/ /\ entry_name \in RecursiveEntries \cup {"H"}
       /\ program = RecursiveProgram

\* The entries that never stop invoking, and two programs that return
RecursiveInputs ==
    \/ /\ entry_name \in RecursiveEntries \cup {"H"}
       /\ program = RecursiveProgram
    \/ /\ entry_name = "M"
       /\ program = Program(ChainOfItems(Items(<<<<1, "y = false ? **hi**">>,
                                                  <<2, "x = -y">>>>)))

Init ==
    /\ Inputs
    /\ Start

RecursiveInit ==
    /\ RecursiveInputs
    /\ Start

StepInit ==
    /\ StepInputs
    /\ Start

\* execute_program_entry up to the first fence group of the entry block
\* (executor.rs 196-263)
ExecuteProgramEntry ==
    /\ pc = "start"
    /\ LET reg == from_program(program)
           st == [State EXCEPT !.registry = reg]
       IN  IF program.blocks = <<>>
           THEN /\ result' = ReturnErr(from_error(NoEntryPoint))
                /\ pc' = "returned"
                /\ Set(st)
                /\ UNCHANGED <<block, group_idx, instr_idx, last_value>>
           ELSE IF get_entry(reg, entry_name) = {}
           THEN \* the message of the error also lists the available blocks
                /\ result' = ReturnErr(from_error(UndefinedBlock(entry_name)))
                /\ pc' = "returned"
                /\ Set(st)
                /\ UNCHANGED <<block, group_idx, instr_idx, last_value>>
           ELSE \E entry \in get_entry(reg, entry_name) :
                /\ block' = entry
                /\ IF chain_is_empty(entry.chain)
                   THEN /\ result' = ReturnOk(auto_unwrap_document(entry.body),
                                              diagnostics)
                        /\ pc' = "returned"
                        /\ Set(st)
                        /\ UNCHANGED <<group_idx, instr_idx, last_value>>
                   ELSE /\ Set(enter_block(entry, <<>>, st))
                        /\ last_value' = Unit
                        /\ group_idx' = 1
                        /\ instr_idx' = 0
                        /\ pc' = "group"
                        /\ UNCHANGED result
    /\ UNCHANGED <<program, entry_name, source_events, parse_state, walk,
                   exec_depth, doc_eval, callers>>

\* execute_block line 267: enter the next fence group
PushFenceContext ==
    /\ pc = "group"
    /\ group_idx <= Len(block.chain.groups)
    /\ Set(begin_group(State))
    /\ instr_idx' = 1
    /\ pc' = "instr"
    /\ UNCHANGED <<program, entry_name, source_events, parse_state, walk,
                   block, group_idx, last_value, result,
                   exec_depth, doc_eval, callers>>

\* execute_block lines 270-281: the next instruction of the group; an error
\* returns from execute_block and from execute_program_entry at once
ExecuteInstruction ==
    /\ pc = "instr"
    /\ instr_idx <= Len(block.chain.groups[group_idx].instructions)
    /\ LET r == step_instruction(block, group_idx, instr_idx, State, exec_depth)
       IN  /\ Set(r.st)
           /\ IF r.ok
              THEN /\ last_value' = r.val
                   /\ instr_idx' = instr_idx + 1
                   /\ UNCHANGED <<pc, result>>
              ELSE /\ result' = ReturnErr(r.err)
                   /\ pc' = "returned"
                   /\ UNCHANGED <<last_value, instr_idx>>
    /\ UNCHANGED <<program, entry_name, source_events, parse_state, walk,
                   block, group_idx, exec_depth, doc_eval, callers>>

\* execute_block lines 283-296: the group is done
PopFenceContext ==
    /\ pc = "instr"
    /\ instr_idx > Len(block.chain.groups[group_idx].instructions)
    /\ Set(end_group(State, block, group_idx))
    /\ group_idx' = group_idx + 1
    /\ pc' = "group"
    /\ UNCHANGED <<program, entry_name, source_events, parse_state, walk,
                   block, instr_idx, last_value, result,
                   exec_depth, doc_eval, callers>>

\* execute_block lines 299-300 and execute_program_entry line 236
PopScope ==
    /\ pc = "group"
    /\ callers = <<>>
    /\ group_idx > Len(block.chain.groups)
    /\ Set(leave_block(State))
    /\ result' = ReturnOk(last_value, diagnostics)
    /\ pc' = "returned"
    /\ UNCHANGED <<program, entry_name, source_events, parse_state, walk,
                   block, group_idx, instr_idx, last_value,
                   exec_depth, doc_eval, callers>>

Next ==
    \/ ExecuteProgramEntry
    \/ PushFenceContext
    \/ ExecuteInstruction
    \/ PopFenceContext
    \/ PopScope

Spec == Init /\ [][Next]_vars

----------------------------------------------------------------------------
(* The same execution with the calls made one at a time.  An instruction   *)
(* or an inline that is an invocation, without arguments, of a block of    *)
(* the program enters that block as a step of its own; the calls that wait *)
(* for the running one to return are kept, outermost first, in `callers`.  *)
(* Every other instruction and inline is still evaluated in one step.      *)

\* The running call: execute_block (pc "group" or "instr") or
\* evaluate_document (pc "doc")
Running ==
    [pc |-> pc, block |-> block, group_idx |-> group_idx,
     instr_idx |-> instr_idx, last_value |-> last_value,
     exec_depth |-> exec_depth, doc_eval |-> doc_eval, callers |-> callers]

SetRunning(run) ==
    /\ pc' = run.pc
    /\ block' = run.block
    /\ group_idx' = run.group_idx
    /\ instr_idx' = run.instr_idx
    /\ last_value' = run.last_value
    /\ exec_depth' = run.exec_depth
    /\ doc_eval' = run.doc_eval
    /\ callers' = run.callers

\* The running call as it waits for invoke_block(.., evaluate_result, depth)
Waiting(run, evaluate_result, invoke_depth) ==
    [pc |-> run.pc, block |-> run.block, group_idx |-> run.group_idx,
     instr_idx |-> run.instr_idx, last_value |-> run.last_value,
     exec_depth |-> run.exec_depth, doc_eval |-> run.doc_eval,
     evaluate_result |-> evaluate_result, depth |-> invoke_depth]

\* invoke_block lines 382-391: the value execute_block returned is evaluated
\* as a document at depth + 1 when evaluate_result asks for it, and is
\* otherwise the value of the instruction or inline that invoked
deliver(run, v, evaluate_result, invoke_depth) ==
    IF evaluate_result /\ v.t = "Document"
    THEN [run EXCEPT !.callers = Append(@, Waiting(run, FALSE, invoke_depth)),
                     !.pc = "doc",
                     !.doc_eval = [nodes |-> v.nodes, k |-> 1, j |-> 1,
                                   last |-> Unit],
                     !.exec_depth = invoke_depth + 1]
    ELSE IF run.pc = "doc"
    THEN [run EXCEPT !.doc_eval.last = v, !.doc_eval.j = @ + 1]
    ELSE [run EXCEPT !.last_value = v, !.instr_idx = @ + 1]

\* The running call returns v to the call that waits for it
return_to_caller(run, v) ==
    deliver([pc |-> run.callers[Len(run.callers)].pc,
             block |-> run.callers[Len(run.callers)].block,
             group_idx |-> run.callers[Len(run.callers)].group_idx,
             instr_idx |-> run.callers[Len(run.callers)].instr_idx,
             last_value |-> run.callers[Len(run.callers)].last_value,
             exec_depth |-> run.callers[Len(run.callers)].exec_depth,
             doc_eval |-> run.callers[Len(run.callers)].doc_eval,
             callers |-> SubSeq(run.callers, 1, Len(run.callers) - 1)],
            v,
            run.callers[Len(run.callers)].evaluate_result,
            run.callers[Len(run.callers)].depth)

\* execute_block lines 249-260 for the invoked block: a block without a
\* chain returns its body, any other becomes the running call
enter_callee(run, st, callee, evaluate_result, invoke_depth) ==
    IF chain_is_empty(callee.chain)
    THEN Ok(deliver(run, auto_unwrap_document(callee.body), evaluate_result,
                    invoke_depth), st)
    ELSE Ok([run EXCEPT
                !.callers = Append(@, Waiting(run, evaluate_result, invoke_depth)),
                !.pc = "group",
                !.block = callee,
                !.group_idx = 1,
                !.instr_idx = 0,
                !.last_value = Unit,
                !.exec_depth = invoke_depth + 1,
                !.doc_eval = None],
            enter_block(callee, <<>>, st))

\* invoke_block (Local) up to its call of execute_block
invoke_step(run, st, block_ref, evaluate_result, invoke_depth) ==
    IF too_deep(invoke_depth) THEN Err(from_error(StackOverflow), st)
    ELSE IF block_name_of(block_ref) \notin DOMAIN st.registry.blocks
    THEN Err(from_error(UndefinedBlock(block_name_of(block_ref))), st)
    ELSE enter_callee(run, st, st.registry.blocks[block_name_of(block_ref)],
                      evaluate_result, invoke_depth)

\* An invocation, without arguments, of a block of the program
is_local_call(value) ==
    /\ value.t \in {"BlockInvocation", "EvaluatedBlockInvocation"}
    /\ value.args = <<>>
    /\ value.block_ref.t = "Local"

CurrentInstruction == block.chain.groups[group_idx].instructions[instr_idx]

CallsBlock ==
    /\ CurrentInstruction.t = "Expression"
    /\ is_local_call(CurrentInstruction.value)

\* The instruction whose execute_instruction encloses the running call: its
\* map_err gives an error without a span the span of that instruction
RECURSIVE enclosing_instruction(_, _)
enclosing_instruction(frames, k) ==
    IF frames[k].pc = "instr"
    THEN frames[k].block.chain.groups[frames[k].group_idx]
             .instructions[frames[k].instr_idx]
    ELSE enclosing_instruction(frames, k - 1)

\* The step ends in an error (execute_program_entry returns it) or goes on
\* with the running call r.val
Proceed(r) ==
    /\ Set(r.st)
    /\ IF r.ok
       THEN SetRunning(r.val) /\ UNCHANGED result
       ELSE /\ result' = ReturnErr(r.err)
            /\ pc' = "returned"
            /\ UNCHANGED <<block, group_idx, instr_idx, last_value, exec_depth,
                           doc_eval, callers>>
    /\ UNCHANGED <<program, entry_name, source_events, parse_state, walk>>

\* execute_instruction of an instruction that does not enter a block
ExecuteLeafInstruction ==
    /\ pc = "instr"
    /\ instr_idx <= Len(block.chain.groups[group_idx].instructions)
    /\ ~CallsBlock
    /\ ExecuteInstruction

\* execute_instruction of `[](#name)` or `![](#name)`: evaluate's depth check,
\* then invoke_block at depth + 1
InvokeFromInstruction ==
    /\ pc = "instr"
    /\ instr_idx <= Len(block.chain.groups[group_idx].instructions)
    /\ CallsBlock
    /\ Proceed(with_instruction_span(
           IF too_deep(exec_depth)
           THEN Err(from_error(StackOverflow),
                    Note(set_fence_instruction(State, instr_idx - 1),
                         [e |-> "instr", lvl |-> Len(scopes), blk |-> block.name,
                          g |-> group_idx, i |-> instr_idx]))
           ELSE invoke_step(Running,
                    Note(set_fence_instruction(State, instr_idx - 1),
                         [e |-> "instr", lvl |-> Len(scopes), blk |-> block.name,
                          g |-> group_idx, i |-> instr_idx]),
                    CurrentInstruction.value.block_ref,
                    CurrentInstruction.value.t = "EvaluatedBlockInvocation",
                    exec_depth + 1),
           CurrentInstruction.span, registry.source_id))

\* execute_block lines 299-300 of an invoked block: its value goes to the
\* call that waits
ReturnFromBlock ==
    /\ pc = "group"
    /\ callers # <<>>
    /\ group_idx > Len(block.chain.groups)
    /\ Set(leave_block(State))
    /\ SetRunning(return_to_caller(Running, last_value))
    /\ UNCHANGED <<program, entry_name, source_events, parse_state, walk, result>>

CurrentNode == doc_eval.nodes[doc_eval.k]

CurrentInline == CurrentNode.inlines[doc_eval.j]

AtInline ==
    /\ pc = "doc"
    /\ doc_eval.k <= Len(doc_eval.nodes)
    /\ CurrentNode.t = "Paragraph"
    /\ doc_eval.j <= Len(CurrentNode.inlines)

CallsBlockInline ==
    /\ CurrentInline.t \in {"Link", "Image"}
    /\ parse_runtime_block_ref(CurrentInline.dest).t = "Local"

\* evaluate_inline of an inline that does not enter a block
EvaluateInline ==
    /\ AtInline
    /\ ~CallsBlockInline
    /\ Proceed(with_instruction_span(
           Try(evaluate_inline(CurrentInline, State, exec_depth), LAMBDA r :
               Ok(deliver(Running, r.val, FALSE, exec_depth), r.st)),
           enclosing_instruction(callers, Len(callers)).span,
           registry.source_id))

\* evaluate_inline of a link or an image: invoke_block at the same depth
InvokeFromInline ==
    /\ AtInline
    /\ CallsBlockInline
    /\ Proceed(with_instruction_span(
           invoke_step(Running, State, parse_runtime_block_ref(CurrentInline.dest),
                       CurrentInline.t = "Image", exec_depth),
           enclosing_instruction(callers, Len(callers)).span,
           registry.source_id))

\* evaluate_document: the inlines of a paragraph are done, or the node is
\* no paragraph and is the value itself
NextNode ==
    /\ pc = "doc"
    /\ doc_eval.k <= Len(doc_eval.nodes)
    /\ CurrentNode.t = "Paragraph" => doc_eval.j > Len(CurrentNode.inlines)
    /\ doc_eval' = [doc_eval EXCEPT
                       !.k = @ + 1,
                       !.j = 1,
                       !.last = IF CurrentNode.t = "Paragraph" THEN @
                                ELSE Document(<<CurrentNode>>)]
    /\ UNCHANGED <<registry, hash_order, scopes, fence_stack, output, diagnostics,
                   trace, entry_name, source_events, parse_state, walk,
                   block, group_idx, instr_idx, last_value,
                   program, panic, pc, result, exec_depth, callers>>

\* evaluate_document returns `last` to invoke_block, which returns it
DocumentDone ==
    /\ pc = "doc"
    /\ doc_eval.k > Len(doc_eval.nodes)
    /\ SetRunning(return_to_caller(Running, doc_eval.last))
    /\ UNCHANGED <<registry, hash_order, scopes, fence_stack, output, diagnostics,
                   trace, panic, entry_name, source_events, parse_state, walk,
                   program, result>>

StepNext ==
    \/ ExecuteProgramEntry
    \/ PushFenceContext
    \/ ExecuteLeafInstruction
    \/ InvokeFromInstruction
    \/ PopFenceContext
    \/ PopScope
    \/ ReturnFromBlock
    \/ EvaluateInline
    \/ InvokeFromInline
    \/ NextNode
    \/ DocumentDone

StepSpec == StepInit /\ [][StepNext]_vars

\* The interpreter is one thread that runs until execute_program_entry
\* returns: a step that can be taken is taken.
FairSpec == RecursiveInit /\ [][StepNext]_vars /\ WF_vars(StepNext)

----------------------------------------------------------------------------
(* Parser::parse one event of the top level at a time, then                *)
(* BlockRegistry::from_program and lexical_ancestors one step of its loop  *)
(* at a time.                                                              *)

\* The events of a heading
HeadingEvents(level, inlines) == <<StartHeading(level)>> \o inlines \o <<EndHeading>>

\* The headings named A or B at every level
NamedHeadings ==
    {HeadingEvents(level, <<TextEvent(<<name>>, 0)>>)
        : level \in 1..MaxLevel, name \in {"A", "B"}}

\* Headings that hold nothing, whitespace, an image without text, and a
\* name between and around whitespace
OddHeadings ==
    {HeadingEvents(1, <<>>), HeadingEvents(2, <<>>),
     HeadingEvents(1, <<TextEvent(<<" ">>, 0)>>),
     HeadingEvents(2, <<StartImage, EndImage>>),
     HeadingEvents(1, <<TextEvent(<<" ", "A", "  ">>, 0), CodeEvent(<<"B">>),
                        TextEvent(<<" ", "C">>, 0)>>)}

Headings == NamedHeadings \cup OddHeadings

\* The events of the items of an ordered list; lines[p] = <<marker, text>>
RECURSIVE ItemEvents(_, _)
ItemEvents(lines, p) ==
    IF p > Len(lines) THEN <<>>
    ELSE <<StartItem(lines[p][1]), TextEvent(<<lines[p][2]>>, 0), EndItem>>
             \o ItemEvents(lines, p + 1)

ListEvents(lines) == <<StartList>> \o ItemEvents(lines, 1) \o <<EndList>>

\* Ordered lists of at most MaxItems items numbered 1 or 2 in any order, a
\* list numbered with `)`, a list whose second item does not parse
OrderedLists ==
    UNION {{ListEvents([p \in 1..n |-> <<markers[p], "**hi**">>])
               : markers \in [1..n -> {"1.", "2."}]} : n \in 1..MaxItems}
        \cup {ListEvents(<<<<"2)", "x = 1">>>>),
              ListEvents(<<<<"1.", "x = 1">>, <<"1.", "x =">>>>)}

Elements ==
    Headings \cup OrderedLists
        \cup {<<StartParagraph, TextEvent(<<"hello">>, 0), EndParagraph>>,
              <<Rule>>, <<Html>>}

RECURSIVE Flatten(_, _)
Flatten(elements, k) ==
    IF k > Len(elements) THEN <<>>
    ELSE elements[k] \o Flatten(elements, k + 1)

\* The events of the sources of at most MaxElements elements
Sources ==
    UNION {{Flatten(elements, 1) : elements \in [1..n -> Elements]}
               : n \in 0..MaxElements}

ParseInit ==
    /\ source_events \in Sources
    /\ parse_state = NewParseState
    /\ pc = "parse"
    /\ program = None
    /\ entry_name = ""
    /\ walk = None
    /\ hash_order = <<"x", "y">>
    /\ registry = EmptyRegistry
    /\ scopes = <<>>
    /\ fence_stack = <<>>
    /\ output = <<>>
    /\ diagnostics = <<>>
    /\ trace = <<>>
    /\ panic = ""
    /\ block = None
    /\ group_idx = 0
    /\ instr_idx = 0
    /\ last_value = Unit
    /\ result = None
    /\ exec_depth = 0
    /\ doc_eval = None
    /\ callers = <<>>

\* What the parser leaves alone
interpreter_vars ==
    <<hash_order, scopes, fence_stack, output, diagnostics, trace, panic, block,
      group_idx, instr_idx, last_value, exec_depth, doc_eval, callers, entry_name,
      source_events>>

\* process_events is at an event of kind t
AtEvent(kinds) ==
    /\ pc = "parse"
    /\ parse_state.i <= Len(source_events)
    /\ source_events[parse_state.i].t \in kinds

\* process_events lines 97-119
ProcessHeading ==
    /\ AtEvent({"StartHeading"})
    /\ parse_state' = process_heading(parse_state, source_events)
    /\ UNCHANGED <<interpreter_vars, pc, program, registry, result, walk>>

\* process_events lines 122-125
ProcessOrderedList ==
    /\ AtEvent({"StartList"})
    /\ parse_state' = process_ordered_list(parse_state, source_events)
    /\ UNCHANGED <<interpreter_vars, pc, program, registry, result, walk>>

\* process_events lines 138-146
ProcessParagraph ==
    /\ AtEvent({"StartParagraph"})
    /\ parse_state' =
           [push_body_node(parse_state,
                Paragraph(collect_inlines(source_events, parse_state.i + 1)))
               EXCEPT !.i = paragraph_end(source_events, parse_state.i + 1)]
    /\ UNCHANGED <<interpreter_vars, pc, program, registry, result, walk>>

\* process_events lines 196-201
ProcessRule ==
    /\ AtEvent({"Rule"})
    /\ parse_state' = [push_body_node(parse_state, [t |-> "Rule"]) EXCEPT !.i = @ + 1]
    /\ UNCHANGED <<interpreter_vars, pc, program, registry, result, walk>>

\* process_events lines 203-205
SkipEvent ==
    /\ AtEvent({"Html"})
    /\ parse_state' = [parse_state EXCEPT !.i = @ + 1]
    /\ UNCHANGED <<interpreter_vars, pc, program, registry, result, walk>>

\* ParseState::finalize and Parser::parse
Finalize ==
    /\ pc = "parse"
    /\ parse_state.i > Len(source_events)
    /\ parse_state' = close_all(parse_state)
    /\ IF parse_state.errors = <<>>
       THEN /\ program' = [blocks |-> close_all(parse_state).top_blocks,
                           source_id |-> 0]
            /\ pc' = "parsed"
            /\ UNCHANGED result
       ELSE /\ result' = [ok |-> FALSE, errors |-> parse_state.errors]
            /\ pc' = "parse_failed"
            /\ UNCHANGED program
    /\ UNCHANGED <<interpreter_vars, registry, walk>>

\* BlockRegistry::from_program
FromProgram ==
    /\ pc = "parsed"
    /\ registry' = from_program(program)
    /\ pc' = "registered"
    /\ UNCHANGED <<interpreter_vars, parse_state, program, result, walk>>

\* lexical_ancestors lines 134-136, called by execute_block (line 258)
\* with the name of a block of the program
LexicalAncestors ==
    /\ pc = "registered"
    /\ \E block_name \in DOMAIN registry.blocks :
           walk' = [block_name |-> block_name, ancestors |-> <<>>,
                    current |-> block_name]
    /\ pc' = "walk"
    /\ UNCHANGED <<interpreter_vars, parse_state, program, registry, result>>

\* The condition of the while loop of lexical_ancestors
HasParent(current) ==
    /\ current \in DOMAIN registry.parent_map
    /\ registry.parent_map[current] # None

\* lexical_ancestors lines 136-139: one turn of the loop
PushAncestor ==
    /\ pc = "walk"
    /\ HasParent(walk.current)
    /\ Len(walk.ancestors) < MaxWalk
    /\ walk' = [walk EXCEPT !.ancestors = Append(@, registry.parent_map[walk.current].v),
                            !.current = registry.parent_map[walk.current].v]
    /\ UNCHANGED <<interpreter_vars, parse_state, program, registry, result, pc>>

\* lexical_ancestors line 140
ReturnAncestors ==
    /\ pc = "walk"
    /\ ~HasParent(walk.current)
    /\ pc' = "walked"
    /\ UNCHANGED <<interpreter_vars, parse_state, program, registry, result, walk>>

ParseNext ==
    \/ ProcessHeading
    \/ ProcessOrderedList
    \/ ProcessParagraph
    \/ ProcessRule
    \/ SkipEvent
    \/ Finalize
    \/ FromProgram
    \/ LexicalAncestors
    \/ PushAncestor
    \/ ReturnAncestors

ParseSpec == ParseInit /\ [][ParseNext]_vars

----------------------------------------------------------------------------
(* Reading the history.  Every event has a level: the depth of the scope   *)
(* stack when it happened, which is the level of the block running then.   *)

Positions == 1..Len(trace)

\* The last position before p of an event of `kinds` at level k, 0 if none
LastBefore(p, k, kinds) ==
    LET found == {q \in 1..(p - 1) : trace[q].lvl = k /\ trace[q].e \in kinds}
    IN  IF found = {} THEN 0 ELSE CHOOSE q \in found : \A r \in found : r <= q

\* The index, in its group, of the instruction the block at level k is
\* running at position p
InstrOf(p, k) == trace[LastBefore(p, k, {"instr"})].i

\* No fence group of the block at level k ends between the positions a and b
SameGroup(a, b, k) ==
    \A q \in Positions :
        ((a < q /\ q < b) \/ (b < q /\ q < a))
            => ~(trace[q].e = "pop" /\ trace[q].lvl = k)

\* The read at p and the write at w are of one variable of one block, and
\* are made while two different instructions of one fence group of that
\* block run (the read possibly inside a block the instruction invokes)
Conflict(p, w) ==
    /\ trace[p].e = "read"
    /\ trace[w].e = "write"
    /\ trace[p].name = trace[w].name
    /\ trace[p].owner = trace[w].lvl
    /\ SameGroup(p, w, trace[w].lvl)
    /\ InstrOf(p, trace[w].lvl) # InstrOf(w, trace[w].lvl)

\* The read at p is made in the scope of the block that owns the variable
SameScopeRead(p) == trace[p].lvl = trace[p].owner

HasWarning(diags, message) ==
    \E k \in 1..Len(diags) :
        diags[k].is_warning /\ diags[k].error = Custom(message)

Returned == pc = "returned"

Succeeded == pc = "returned" /\ result.ok

Failed == pc = "returned" /\ ~result.ok

\* execute_block is about to pop the fence context of the current group
GroupEnds ==
    /\ pc = "instr"
    /\ instr_idx > Len(block.chain.groups[group_idx].instructions)

----------------------------------------------------------------------------
(* C1 *)

\* The chains that differ from `chain` by the order of the instructions
\* inside each group
PermutedChains(chain) ==
    LET n == Len(chain.groups)
        orders == UNION {Permutations(1..m) : m \in 0..MaxInstr}
        choices == {pi \in [1..n -> orders] :
                       \A g \in 1..n :
                           DOMAIN pi[g] = 1..Len(chain.groups[g].instructions)}
    IN  {Chain([g \in 1..n |->
                   [chain.groups[g] EXCEPT !.instructions =
                        [i \in 1..Len(@) |->
                             chain.groups[g].instructions[pi[g][i]]]]])
         : pi \in choices}

\* The interpreter state execute_program_entry starts execute_block in
FreshState(prog) ==
    [registry |-> from_program(prog), hash_order |-> hash_order, scopes |-> <<>>,
     fence_stack |-> <<>>, output |-> <<>>, diagnostics |-> <<>>,
     trace |-> <<>>, panic |-> ""]

WarningSet(diags) == {diags[k] : k \in 1..Len(diags)}

Outcome(r) ==
    [ok |-> r.ok, val |-> IF r.ok THEN r.val ELSE None,
     output |-> r.st.output, warnings |-> WarningSet(r.st.diagnostics)]

\* The program with the chain of its first block replaced
WithChain(prog, chain) == [prog EXCEPT !.blocks[1].chain = chain]

RunFirstBlock(prog) ==
    execute_block(prog.blocks[1], <<>>, FreshState(prog), 0)

\* C1: when the run of a block in source order has met no read of a variable
\* by one instruction and write of it by another instruction of the same
\* group, running the block with the instructions of each group in any
\* other order gives the same block value, the same writer contents and the
\* same set of warnings.
C1_PermutationDeterminism ==
    (/\ Succeeded
     /\ block = program.blocks[1]
     /\ ~\E p \in Positions, w \in Positions : Conflict(p, w))
    => \A chain \in PermutedChains(block.chain) :
           Outcome(RunFirstBlock(WithChain(program, chain)))
               = [ok |-> TRUE, val |-> result.val, output |-> output,
                  warnings |-> WarningSet(result.diagnostics)]

----------------------------------------------------------------------------
(* C2 *)

----------------------------------------------------------------------------
(* C3 *)

\* The fence context execute_block is about to pop
TopContext == fence_stack[Len(fence_stack)]

WriteIndices(ctx, name) ==
    IF name \in DOMAIN ctx.writes THEN ctx.writes[name] ELSE <<>>

\* The spans pop_fence_context reports for `name`
Reported(ctx, name) ==
    LET violations == fence_violations(ctx, hash_order)
        at == {k \in 1..Len(violations) : violations[k].name = name}
    IN  IF at = {} THEN <<>> ELSE violations[CHOOSE k \in at : TRUE].spans

SpansOf(read_entries) == [k \in 1..Len(read_entries) |-> read_entries[k].span]

\* The reads of `name` whose index differs from every write index of `name`,
\* of which there is at least one
ReadsApartFromEveryWrite(ctx, name) ==
    SelectSeq(ctx.reads[name],
              LAMBDA r : /\ WriteIndices(ctx, name) # <<>>
                         /\ \A w \in 1..Len(WriteIndices(ctx, name)) :
                                r.idx # WriteIndices(ctx, name)[w])

\* The reads of `name` whose index differs from some write index of `name`
ReadsApartFromSomeWrite(ctx, name) ==
    SelectSeq(ctx.reads[name],
              LAMBDA r : \E w \in 1..Len(WriteIndices(ctx, name)) :
                             r.idx # WriteIndices(ctx, name)[w])

----------------------------------------------------------------------------
(* C4 *)

\* The variable references in an expression, in evaluation order, not
\* counting those of the blocks it invokes
RECURSIVE var_refs(_)
RECURSIVE template_refs(_, _)

template_refs(parts, k) ==
    IF k > Len(parts) THEN <<>>
    ELSE (IF parts[k].t = "Expression" THEN var_refs(parts[k].expr) ELSE <<>>)
             \o template_refs(parts, k + 1)

var_refs(value) ==
    CASE value.t = "VariableReference" -> <<value>>
      [] value.t \in {"Print", "Interpolation", "Strikethrough"} ->
             template_refs(value.template.parts, 1)
      [] value.t = "UnaryOperation" -> var_refs(value.operand)
      [] value.t = "BinaryOperation" ->
             var_refs(value.left) \o var_refs(value.right)
      [] value.t = "Conditional" ->
             var_refs(value.condition) \o var_refs(value.true_branch)
                 \o (IF value.false_branch = None THEN <<>>
                     ELSE var_refs(value.false_branch))
      [] OTHER -> <<>>

IsInvocation(value) ==
    value.t \in {"BlockInvocation", "EvaluatedBlockInvocation"}

\* The chain is one fence group of two instructions: the first assigns
\* `name` a literal, the second reads `name` once and does nothing else
ScenarioS8(chain, name) ==
    /\ Len(chain.groups) = 1
    /\ Len(chain.groups[1].instructions) = 2
    /\ LET first == chain.groups[1].instructions[1]
           second == chain.groups[1].instructions[2]
       IN  /\ first.t = "Assignment"
           /\ first.variable = name
           /\ first.value.t = "NumberLiteral"
           /\ ~(second.t = "Assignment" /\ second.variable = name)
           /\ ~IsInvocation(second.value)
           /\ Len(var_refs(second.value)) = 1
           /\ var_refs(second.value)[1].name = name

\* The read entries of the context that conflict with a write: the warnings
\* the pop of the context has to give, one per entry
ConflictingReads(ctx) ==
    {e \in UNION {{[name |-> name, k |-> k] : k \in 1..Len(ctx.reads[name])}
                     : name \in DOMAIN ctx.reads} :
        \E w \in 1..Len(WriteIndices(ctx, e.name)) :
            WriteIndices(ctx, e.name)[w] # ctx.reads[e.name][e.k].idx}

\* The diagnostics the pop of the current group appends
PopWarnings ==
    SubSeq(end_group(State, block, group_idx).diagnostics,
           Len(diagnostics) + 1,
           Len(end_group(State, block, group_idx).diagnostics))

\* C4: a group in which one instruction assigns x and the next reads x once
\* executes successfully with exactly one warning, the same-fence warning for
\* x at the span of the read; and the pop of any group appends exactly one
\* same-fence warning per conflicting read, and nothing else.
C4_OneWarningPerConflictingRead ==
    /\ \A name \in {"x", "y"} :
           (Returned /\ block # None /\ ScenarioS8(block.chain, name))
           => /\ result.ok
              /\ result.diagnostics =
                     <<warning(SameFenceMessage(name),
                               var_refs(block.chain.groups[1].instructions[2].value)[1].span,
                               registry.source_id)>>
    /\ GroupEnds
       => /\ Len(PopWarnings) = Cardinality(ConflictingReads(TopContext))
          /\ \A e \in ConflictingReads(TopContext) :
                 \E k \in 1..Len(PopWarnings) :
                     PopWarnings[k] =
                         warning(SameFenceMessage(e.name),
                                 TopContext.reads[e.name][e.k].span,
                                 registry.source_id)
          /\ SubSeq(end_group(State, block, group_idx).diagnostics,
                    1, Len(diagnostics)) = diagnostics

\* The scenario has run
C4_Witness ==
    /\ Returned
    /\ block # None
    /\ ScenarioS8(block.chain, "x")
    /\ result.ok
    /\ Len(result.diagnostics) = 1

----------------------------------------------------------------------------
(* C5 *)

\* The block called `name`: of the program, or else of an imported file
BlockNamed(name) ==
    IF name \in DOMAIN registry.blocks THEN registry.blocks[name]
    ELSE CHOOSE blk \in {registry.import_cache[c][name] :
                             c \in {d \in DOMAIN registry.import_cache :
                                        name \in DOMAIN registry.import_cache[d]}} :
             TRUE

GroupsOf(name) == BlockNamed(name).chain.groups

\* The event b is what a block at one level does next after its event a:
\* the next instruction of the group, the pop of the group after its last
\* instruction, the first instruction of the next group after a pop, and
\* after the pop of the last group the first instruction of a new execution
ComesNext(a, b) ==
    IF a.e = "instr"
    THEN IF a.i < Len(GroupsOf(a.blk)[a.g].instructions)
         THEN b.e = "instr" /\ b.blk = a.blk /\ b.g = a.g /\ b.i = a.i + 1
         ELSE b.e = "pop" /\ b.blk = a.blk /\ b.g = a.g
    ELSE IF a.g < Len(GroupsOf(a.blk))
         THEN b.e = "instr" /\ b.blk = a.blk /\ b.g = a.g + 1 /\ b.i = 1
         ELSE b.e = "instr" /\ b.g = 1 /\ b.i = 1

\* The write at p is made by the assignment running at its level
WrittenByRunningInstruction(p) ==
    LET q == LastBefore(p, trace[p].lvl, {"instr", "pop"})
    IN  /\ q > 0
        /\ trace[q].e = "instr"
        /\ GroupsOf(trace[q].blk)[trace[q].g].instructions[trace[q].i].t
               = "Assignment"
        /\ GroupsOf(trace[q].blk)[trace[q].g].instructions[trace[q].i].variable
               = trace[p].name

\* C5: at every level the instructions run group after group in chain
\* order, each group popped before the next starts and every write made
\* while its assignment runs; and when a group of the entry block starts or
\* runs, every variable assigned by an earlier group holds a value.
C5_GroupsInChainOrder ==
    /\ \A p \in Positions :
           /\ trace[p].e \in {"instr", "pop"}
              => IF LastBefore(p, trace[p].lvl, {"instr", "pop"}) = 0
                 THEN trace[p].e = "instr" /\ trace[p].g = 1 /\ trace[p].i = 1
                 ELSE ComesNext(
                          trace[LastBefore(p, trace[p].lvl, {"instr", "pop"})],
                          trace[p])
           /\ trace[p].e = "write" => WrittenByRunningInstruction(p)
    /\ pc \in {"group", "instr"}
       => /\ Len(fence_stack) = (IF pc = "instr" THEN 1 ELSE 0)
          /\ \A g \in 1..Len(block.chain.groups) :
                 g < group_idx
                 => \A i \in 1..Len(block.chain.groups[g].instructions) :
                        block.chain.groups[g].instructions[i].t = "Assignment"
                        => scopes[1].variables[
                               block.chain.groups[g].instructions[i].variable]
                               # None

\* The second group of the entry block starts after a first that assigns
C5_Witness ==
    /\ pc = "instr"
    /\ group_idx = 2
    /\ instr_idx = 1
    /\ \E i \in 1..Len(block.chain.groups[1].instructions) :
           block.chain.groups[1].instructions[i].t = "Assignment"

----------------------------------------------------------------------------
(* C6 *)

\* C6: when execution returns an error, every scope and every fence context
\* pushed during it has been popped: both stacks are as deep as before the
\* call, that is empty.
C6_UnwoundOnError ==
    Failed => scopes = <<>> /\ fence_stack = <<>>

----------------------------------------------------------------------------
(* C7 *)

\* invoke_block of the block `name` in the current state
InvokeHere(name, evaluate_result) ==
    invoke_block(Local(name), <<>>, State, evaluate_result, 1)

\* C7: when execution returns a value both stacks are empty as they were at
\* entry; while the entry block runs, between its instructions, the scope
\* stack holds its scope alone and the fence stack the context of the
\* current group alone; and an invoke_block that returns a value leaves both
\* stacks as deep as it found them.
C7_BalancedOnSuccess ==
    /\ Succeeded => scopes = <<>> /\ fence_stack = <<>>
    /\ pc = "instr" => Len(scopes) = 1 /\ Len(fence_stack) = 1
    /\ pc = "group" => Len(scopes) = 1 /\ Len(fence_stack) = 0
    /\ pc = "instr"
       => \A name \in DOMAIN registry.blocks, evaluate_result \in BOOLEAN :
              InvokeHere(name, evaluate_result).ok
              => /\ Len(InvokeHere(name, evaluate_result).st.scopes)
                        = Len(scopes)
                 /\ Len(InvokeHere(name, evaluate_result).st.fence_stack)
                        = Len(fence_stack)

\* Execution has returned a value after running an invoked block
C7_Witness ==
    /\ Succeeded
    /\ block # None
    /\ \E p \in Positions : trace[p].e = "pop" /\ trace[p].lvl = 2

----------------------------------------------------------------------------
(* C8 *)

\* The names that are the target of an Assignment somewhere in the chain
AssignedNames(groups) ==
    UNION {{groups[g].instructions[i].variable :
               i \in {j \in 1..Len(groups[g].instructions) :
                          groups[g].instructions[j].t = "Assignment"}}
           : g \in 1..Len(groups)}

ProbeSpan == Range(1, 2)

\* The state of the interpreter with the scope stack a reference met
Snapshot(scope_stack) ==
    [State EXCEPT !.scopes = scope_stack, !.diagnostics = <<>>]

\* The evaluation of a reference to `name` with that scope stack
Lookup(scope_stack, name) ==
    evaluate(VariableReference(name, ProbeSpan), Snapshot(scope_stack), 0,
             ProbeSpan)

Innermost(scope_stack) == scope_stack[Len(scope_stack)]

\* The reference at p is to a name its own block assigns
ReadsOwnAssigned(p) ==
    /\ trace[p].e = "read"
    /\ trace[p].name
           \in AssignedNames(GroupsOf(Innermost(trace[p].scopes).block_name))

\* An assignment to the name read at p has run in this execution of the
\* block before p
AssignedBefore(p) ==
    \E w \in 1..(p - 1) :
        /\ trace[w].e = "write"
        /\ trace[w].name = trace[p].name
        /\ trace[w].lvl = trace[p].lvl
        /\ \A q \in (w + 1)..(p - 1) :
               ~(trace[q].e = "instr" /\ trace[q].lvl = trace[p].lvl
                    /\ trace[q].g = 1 /\ trace[q].i = 1)

\* C8: a reference, evaluated inside a block, to a name the block's chain
\* assigns is never UndefinedVariable: before the first assignment has run
\* it gives Unit and appends the before-assignment warning, afterwards it
\* gives the value the scope holds and appends nothing; so an
\* UndefinedVariable that execution returns names a variable the block that
\* referred to it does not assign.
C8_HoistedNeverUndefined ==
    /\ \A p \in Positions :
           ReadsOwnAssigned(p)
           => /\ Lookup(trace[p].scopes, trace[p].name).ok
              /\ IF AssignedBefore(p)
                 THEN /\ Innermost(trace[p].scopes).variables[trace[p].name] # None
                      /\ Lookup(trace[p].scopes, trace[p].name).val
                             = Innermost(trace[p].scopes).variables[trace[p].name]
                      /\ Lookup(trace[p].scopes, trace[p].name).st.diagnostics
                             = <<>>
                 ELSE /\ Lookup(trace[p].scopes, trace[p].name).val = Unit
                      /\ Lookup(trace[p].scopes, trace[p].name).st.diagnostics
                             = <<warning(BeforeAssignmentMessage(trace[p].name),
                                         ProbeSpan, registry.source_id)>>
    /\ (Failed /\ result.err.error.t = "UndefinedVariable")
       => /\ trace # <<>>
          /\ trace[Len(trace)].e = "read"
          /\ trace[Len(trace)].name = result.err.error.name
          /\ ~ReadsOwnAssigned(Len(trace))

\* A name has been read before its assignment in the block ran, and again
\* after it
C8_Witness ==
    /\ \E p \in Positions : ReadsOwnAssigned(p) /\ ~AssignedBefore(p)
    /\ \E p \in Positions : ReadsOwnAssigned(p) /\ AssignedBefore(p)

----------------------------------------------------------------------------
(* C9 *)

\* The names of the blocks nested, at any depth, inside blk
RECURSIVE NestedNames(_)
NestedNames(blk) ==
    UNION {{blk.children[k].name} \cup NestedNames(blk.children[k])
           : k \in 1..Len(blk.children)}

RECURSIVE BlocksUnder(_)
BlocksUnder(blks) ==
    UNION {{blks[k]} \cup BlocksUnder(blks[k].children) : k \in 1..Len(blks)}

\* In the program text the block `inner` is nested inside the block `outer`
IsLexicalAncestor(outer, inner) ==
    \E blk \in BlocksUnder(program.blocks) :
        blk.name = outer /\ inner \in NestedNames(blk)

\* The scopes of the stack that have the name
Holding(scope_stack, name) ==
    {k \in 1..Len(scope_stack) : name \in DOMAIN scope_stack[k].variables}

InnermostHolding(scope_stack, name) ==
    CHOOSE k \in Holding(scope_stack, name) :
        \A j \in Holding(scope_stack, name) : j <= k

\* The scope that holds the name is owned by the block that reads it or by
\* a block that block is nested in
LexicalOwner(scope_stack, name) ==
    \/ scope_stack[InnermostHolding(scope_stack, name)].block_name
           = Innermost(scope_stack).block_name
    \/ IsLexicalAncestor(
           scope_stack[InnermostHolding(scope_stack, name)].block_name,
           Innermost(scope_stack).block_name)

\* The value the innermost scope that has the name holds for it
HeldValue(scope_stack, name) ==
    scope_stack[InnermostHolding(scope_stack, name)].variables[name]

\* C9: a reference to a name no scope has is the error UndefinedVariable; a
\* reference to a name some scope has gives, when the innermost such scope
\* holds a value for it, that value, with no warning when that scope is
\* owned by the current block or one of its lexical ancestors and with
\* exactly one non-lexical-scope warning otherwise.
C9_LookupInnermostFirst ==
    \A p \in Positions :
        trace[p].e = "read"
        => IF Holding(trace[p].scopes, trace[p].name) = {}
           THEN /\ ~Lookup(trace[p].scopes, trace[p].name).ok
                /\ Lookup(trace[p].scopes, trace[p].name).err.error
                       = UndefinedVariable(trace[p].name)
                /\ ~Lookup(trace[p].scopes, trace[p].name).err.is_warning
                /\ Lookup(trace[p].scopes, trace[p].name).st.diagnostics = <<>>
           ELSE HeldValue(trace[p].scopes, trace[p].name) # None
                => /\ Lookup(trace[p].scopes, trace[p].name).ok
                   /\ Lookup(trace[p].scopes, trace[p].name).val
                          = HeldValue(trace[p].scopes, trace[p].name)
                   /\ Lookup(trace[p].scopes, trace[p].name).st.diagnostics
                          = IF LexicalOwner(trace[p].scopes, trace[p].name)
                            THEN <<>>
                            ELSE <<warning(NonLexicalMessage(trace[p].name),
                                           ProbeSpan, registry.source_id)>>

\* The read at p finds a value in a scope under the innermost one
ReadsOuterValue(p) ==
    /\ trace[p].e = "read"
    /\ Holding(trace[p].scopes, trace[p].name) # {}
    /\ InnermostHolding(trace[p].scopes, trace[p].name) < Len(trace[p].scopes)
    /\ HeldValue(trace[p].scopes, trace[p].name) # None

\* Execution has returned a value after a block read a value from the scope
\* of a block that is not one of its lexical ancestors
C9_Witness ==
    /\ Succeeded
    /\ \E p \in Positions :
           /\ ReadsOuterValue(p)
           /\ ~LexicalOwner(trace[p].scopes, trace[p].name)
           /\ HasWarning(result.diagnostics, NonLexicalMessage(trace[p].name))

----------------------------------------------------------------------------
(* C10 *)

\* The runtime values the state holds: the last value of the entry block and
\* the values of the variables
HeldValues ==
    {last_value} \cup
    (UNION {{scopes[k].variables[name] : name \in DOMAIN scopes[k].variables}
            : k \in 1..Len(scopes)} \ {None})

\* C10: for every runtime value v the state holds, when demand(v) returns a
\* value, a further demand returns that same value.
C10_DemandIdempotent ==
    pc \in {"group", "instr"}
    => \A v \in HeldValues :
           demand(v, State, 0).ok
           => /\ demand(demand(v, State, 0).val, demand(v, State, 0).st, 0).ok
              /\ demand(demand(v, State, 0).val, demand(v, State, 0).st, 0).val
                     = demand(v, State, 0).val

----------------------------------------------------------------------------
(* C11 *)

PrintHi == PrintExpr(TemplateString(<<Literal("hi")>>))

\* Branches with an effect of every kind: a write to the writer, a block
\* invocation, a variable read, a read that appends a warning or fails
EffectfulBranches ==
    {PrintHi, Invoke("W"), Invoke("D"),
     VariableReference("x", ProbeSpan), VariableReference("y", ProbeSpan),
     VariableReference("nope", ProbeSpan),
     PrintExpr(single_expression(VariableReference("x", ProbeSpan)))}

FalsyConditions ==
    {BooleanLiteral(FALSE), UnitLiteral,
     StrikethroughExpr(TemplateString(<<Literal("1")>>))}

\* The entry block is `1. y = false ? **hi**` / `2. x = -y`
DeferredPrintChain ==
    /\ block # None
    /\ block.name = "M"
    /\ block.chain = ChainOfItems(Items(<<<<1, "y = false ? **hi**">>,
                                         <<2, "x = -y">>>>))

\* C11: evaluating `cond ? expr` with a falsy cond gives
\* Strikethrough(Lazy(expr)) and leaves the writer, the scopes, the fence
\* contexts, the diagnostics and the history of reads and invocations as
\* they were; demanding that value does what evaluating expr does; and in
\* the run of `y = false ? **hi**` nothing is written until y is demanded.
C11_FalsyConditionalDefers ==
    /\ pc = "instr"
       => \A e \in EffectfulBranches, c \in FalsyConditions :
              /\ evaluate(Conditional(c, e, None), State, 0, ProbeSpan)
                     = Ok(Strikethrough(Lazy(e)), State)
              /\ demand(Strikethrough(Lazy(e)), State, 1)
                     = evaluate(e, State, 1, Range(0, 0))
    /\ (DeferredPrintChain /\ group_idx = 1 /\ pc = "instr" /\ instr_idx = 2)
       => /\ output = <<>>
          /\ diagnostics = <<>>
          /\ last_value = Strikethrough(Lazy(PrintHi))
          /\ scopes[1].variables["y"] = Strikethrough(Lazy(PrintHi))
    /\ (DeferredPrintChain /\ group_idx = 2 /\ pc = "instr" /\ instr_idx = 1)
       => output = <<>>

\* The assignment of the falsy conditional has run without writing, and the
\* later demand of y has written the line
C11_Witness ==
    /\ DeferredPrintChain
    /\ Returned
    /\ output = <<"hi">>
    /\ scopes[1].variables["y"] = Strikethrough(Lazy(PrintHi))

----------------------------------------------------------------------------
(* C12 *)

\* The expression holds a block invocation at some depth
RECURSIVE contains_invocation(_)
contains_invocation(value) ==
    CASE IsInvocation(value) -> TRUE
      [] value.t \in {"Print", "Interpolation", "Strikethrough"} ->
             \E k \in 1..Len(value.template.parts) :
                 /\ value.template.parts[k].t = "Expression"
                 /\ contains_invocation(value.template.parts[k].expr)
      [] value.t = "UnaryOperation" -> contains_invocation(value.operand)
      [] value.t = "BinaryOperation" ->
             contains_invocation(value.left) \/ contains_invocation(value.right)
      [] value.t = "Conditional" ->
             \/ contains_invocation(value.condition)
             \/ contains_invocation(value.true_branch)
             \/ (value.false_branch # None
                    /\ contains_invocation(value.false_branch))
      [] OTHER -> FALSE

\* Templates of one expression part: an invocation as the whole part, an
\* invocation inside an operator and inside a conditional, and no invocation
StrikethroughTemplates ==
    {single_expression(Invoke("W")),
     single_expression(BinaryOperation("Equality", Invoke("W"), NumberLiteral(1))),
     single_expression(UnaryOperation("LogicalNot", Invoke("W"))),
     single_expression(Conditional(BooleanLiteral(TRUE), Invoke("W"), None)),
     single_expression(NumberLiteral(1)),
     TemplateString(<<Literal("a"), Expression(NumberLiteral(1))>>)}

----------------------------------------------------------------------------
(* C13 *)

----------------------------------------------------------------------------
(* C14 *)

Overflow(st) == Err(from_error(StackOverflow), st)

\* Expressions that evaluate a part of theirs
CompoundExpressions ==
    {UnaryOperation("Negation", NumberLiteral(1)),
     UnaryOperation("LogicalNot", NumberLiteral(1)),
     BinaryOperation("Addition", NumberLiteral(1), NumberLiteral(1)),
     Conditional(BooleanLiteral(TRUE), NumberLiteral(1), None),
     Conditional(BooleanLiteral(FALSE), NumberLiteral(1), NumberLiteral(2)),
     PrintExpr(single_expression(NumberLiteral(1))),
     Interpolation(single_expression(NumberLiteral(1))),
     StrikethroughExpr(single_expression(NumberLiteral(1))),
     Invoke("W"), InvokeEvaluated("T"),
     BlockInvocation(<<NumberLiteral(1)>>, Local("W"))}

ProbeExpressions ==
    CompoundExpressions \cup EffectfulBranches
        \cup {NumberLiteral(1), StringLiteral("s"), UnitLiteral,
              SpreadArgumentReference}

ProbeReferences ==
    {Local("W"), Local("T"), Local("nope"), RemoteImport("https://u", "W")}

\* The blocks of the program that have a chain
ChainBlocks ==
    {registry.blocks[name] : name \in
        {n \in DOMAIN registry.blocks : ~chain_is_empty(registry.blocks[n].chain)}}

----------------------------------------------------------------------------
(* C15 *)

\* The positions of the history where a file was read and parsed, and where
\* a path was resolved to the canonical path c
LoadsOf(c) == {p \in Positions : trace[p].e = "load" /\ trace[p].canonical = c}

ImportsOf(c) ==
    {p \in Positions : trace[p].e = "import" /\ trace[p].canonical = Some(c)}

\* The blocks of the file c as load_import registers them
ParsedBlocks(c) ==
    register_blocks([blocks |-> EmptyMap, parent_map |-> EmptyMap],
                    Files[c].blocks, 1, None).blocks

CacheKept ==
    \A c \in DOMAIN registry.import_cache :
        /\ c \in DOMAIN registry.import_cache'
        /\ registry.import_cache'[c] = registry.import_cache[c]

\* C15: in one execution no canonical path is read and parsed twice; the
\* first reference to a path reads the file, right after the path is
\* resolved, and every later reference to the same canonical path reads
\* nothing; the cache holds the blocks of the files that were read, and an
\* entry of the cache never changes.
C15_ImportedOnce ==
    /\ [](\A c \in FilePaths :
              /\ Cardinality(LoadsOf(c)) <= 1
              /\ \A p \in LoadsOf(c) :
                     /\ p - 1 \in ImportsOf(c)
                     /\ \A q \in ImportsOf(c) : q >= p - 1
              /\ c \in DOMAIN registry.import_cache
                 => /\ LoadsOf(c) # {}
                    /\ Files[c].ok
                    /\ registry.import_cache[c] = ParsedBlocks(c)
              /\ (ImportsOf(c) # {} /\ ~Failed) => LoadsOf(c) # {})
    /\ [][CacheKept]_vars

\* Two references with different paths to one file, both served
C15_Witness ==
    /\ Succeeded
    /\ \E c \in DOMAIN registry.import_cache :
           \E p, q \in ImportsOf(c) :
               /\ p < q
               /\ trace[p].path # trace[q].path
               /\ trace[q].lvl = 1

----------------------------------------------------------------------------
(* C16 *)

\* The directory of the file that holds the block `name`: the program's own
\* directory for the blocks of the program, for a block of an imported file
\* the canonical path of the file without its last name
ImportingDir(name) ==
    IF name \in DOMAIN registry.blocks THEN registry.base_dir
    ELSE SubSeq(CHOOSE c \in DOMAIN registry.import_cache :
                    name \in DOMAIN registry.import_cache[c],
                1,
                Len(CHOOSE c \in DOMAIN registry.import_cache :
                        name \in DOMAIN registry.import_cache[c]) - 1)

\* C16: every path an instruction imports is resolved from the directory of
\* the file that holds the instruction, also when that file was itself
\* imported from another directory.
C16_ResolvedFromImportingFile ==
    \A p \in Positions :
        trace[p].e = "import"
        => trace[p].canonical = resolve(ImportingDir(trace[p].from), trace[p].path)

----------------------------------------------------------------------------
(* C17 *)

\* The names that differ from `name` at most by the ASCII case of letters
CaseVariants(name) ==
    CASE name \in {"Ab", "aB", "AB", "ab"} -> {"Ab", "aB", "AB", "ab"}
      [] name \in {"M", "m"} -> {"M", "m"}
      [] name \in {"D", "d"} -> {"D", "d"}
      [] name \in {"W", "w"} -> {"W", "w"}
      [] name \in {"S", "s"} -> {"S", "s"}
      [] name \in {"F", "f"} -> {"F", "f"}
      [] name \in {"G", "g"} -> {"G", "g"}
      [] name \in {"T", "t"} -> {"T", "t"}
      [] OTHER -> {name}

\* What execute_program_entry gives for the block `blk` as the entry
RunOf(blk) == execute_block(blk, <<>>, FreshState(program), 0)

\* The run that has returned gave what the run of `blk` gives
SameAsRunOf(blk) ==
    /\ result.ok = RunOf(blk).ok
    /\ result.ok => /\ result.val = RunOf(blk).val
                    /\ result.diagnostics = RunOf(blk).st.diagnostics
    /\ ~result.ok => result.err = RunOf(blk).err
    /\ output = RunOf(blk).st.output

\* The other blocks whose names differ from `name` only by case
CaseTwins(name) == (CaseVariants(name) \cap DOMAIN registry.blocks) \ {name}

\* C17 as stated: a run whose entry name is a block's name with the case of
\* letters changed gives the value, the writer contents and the diagnostics
\* of the run of that block, whatever other blocks the program has.
C17_CaseInsensitiveEntry ==
    Returned
    => \A name \in DOMAIN registry.blocks :
           entry_name \in CaseVariants(name) => SameAsRunOf(registry.blocks[name])

\* C17: the same for the blocks no other block's name differs from only by
\* case; and among blocks that differ only by case, the exact name wins and
\* any other spelling runs one of them.
C17_CaseInsensitiveEntryUnique ==
    Returned
    => \A name \in DOMAIN registry.blocks :
           entry_name \in CaseVariants(name)
           => /\ CaseTwins(name) = {} => SameAsRunOf(registry.blocks[name])
              /\ entry_name = name => SameAsRunOf(registry.blocks[name])
              /\ \E twin \in CaseTwins(name) \cup {name} :
                     SameAsRunOf(registry.blocks[twin])

\* The block M has run for the entry name m
C17_Witness ==
    /\ Succeeded
    /\ entry_name \notin DOMAIN registry.blocks
    /\ \E name \in DOMAIN registry.blocks :
           /\ entry_name \in CaseVariants(name)
           /\ CaseTwins(name) = {}
           /\ block = registry.blocks[name]

----------------------------------------------------------------------------
(* C18 *)

\* C18: every collected diagnostic is a warning and nothing panics; a run
\* returns either Ok with a value and the collected warnings, or Err with
\* one diagnostic that is not a warning, is none of the collected ones and
\* comes without them; a run fails only with such an error, so that the
\* warnings collected so far never end it; an empty program gives
\* NoEntryPoint and an entry name that no block answers to UndefinedBlock.
C18_TwoOutcomes ==
    /\ panic = ""
    /\ \A k \in 1..Len(diagnostics) :
           /\ diagnostics[k].is_warning
           /\ diagnostics[k].error.t = "Custom"
    /\ ~Returned => result = None
    /\ Succeeded
       => /\ DOMAIN result = {"ok", "val", "diagnostics"}
          /\ result.diagnostics = diagnostics
    /\ Failed
       => /\ DOMAIN result = {"ok", "err"}
          /\ ~result.err.is_warning
          /\ result.err.error.t # "Panic"
          /\ \A k \in 1..Len(diagnostics) : diagnostics[k] # result.err
    /\ (Returned /\ program.blocks = <<>>)
       => /\ ~result.ok
          /\ result.err = from_error(NoEntryPoint)
    /\ (Returned /\ program.blocks # <<>> /\ get_entry(registry, entry_name) = {})
       => /\ ~result.ok
          /\ result.err = from_error(UndefinedBlock(entry_name))
          /\ output = <<>>

\* An error ends a run that had collected a warning
C18_Witness ==
    /\ Failed
    /\ diagnostics # <<>>

----------------------------------------------------------------------------
(* C19 *)

\* The value matches the pattern
RECURSIVE Matches(_, _)
Matches(template, val) ==
    CASE template.t = "NumberLiteral" -> val = Number(template.n)
      [] template.t = "StringLiteral" -> val = String(template.s)
      [] template.t = "BooleanLiteral" -> val = Boolean(template.b)
      [] template.t = "UnitLiteral" -> val = Unit
      [] template.t \in {"Wildcard", "Binding"} -> TRUE
      [] template.t = "Alternation" ->
             \E k \in 1..Len(template.alternatives) :
                 Matches(template.alternatives[k], val)

\* The names a matching pattern captures, with their values
RECURSIVE Captured(_, _)
Captured(template, val) ==
    CASE template.t = "Binding" -> (template.name :> val)
      [] template.t = "Alternation" ->
             Captured(template.alternatives[
                          CHOOSE k \in 1..Len(template.alternatives) :
                              /\ Matches(template.alternatives[k], val)
                              /\ \A j \in 1..(k - 1) :
                                     ~Matches(template.alternatives[j], val)],
                      val)
      [] OTHER -> EmptyMap

\* The first arm, in source order, whose pattern matches: a set of one index, or none
FirstMatching(arms, val) ==
    {k \in 1..Len(arms) :
        /\ Matches(arms[k].template, val)
        /\ \A j \in 1..(k - 1) : ~Matches(arms[j].template, val)}

\* The state with the captured names set in the current scope
WithCaptured(st, captured) ==
    [st EXCEPT !.scopes[Len(st.scopes)].variables =
        [name \in DOMAIN captured \cup DOMAIN @ |->
            IF name \in DOMAIN captured THEN captured[name] ELSE @[name]]]

\* What the match gives once its scrutinee has the value val
AfterScrutinee(m, val, st) ==
    IF FirstMatching(m.arms, val) # {}
    THEN evaluate(m.arms[CHOOSE k \in FirstMatching(m.arms, val) : TRUE].result,
                  WithCaptured(st,
                      Captured(m.arms[CHOOSE k \in FirstMatching(m.arms, val) :
                                          TRUE].template, val)),
                  1, ProbeSpan)
    ELSE IF m.otherwise # None
    THEN evaluate(m.otherwise.v.result,
                  IF m.otherwise.v.binding # None
                  THEN WithCaptured(st, (m.otherwise.v.binding.v :> val))
                  ELSE st,
                  1, ProbeSpan)
    ELSE Err(from_error(NonExhaustiveMatch), st)

\* The match expression of the entry block X
TheMatch == block.chain.groups[1].instructions[1].value

\* C19: a match evaluates its scrutinee once and then gives what the result
\* of the first arm whose pattern matches gives in the state where the
\* names the pattern captures are set in the current scope, what the
\* otherwise result gives if no arm matches, and NonExhaustiveMatch if
\* there is no otherwise clause either; no other result is evaluated.
C19_FirstMatchingArm ==
    (pc = "instr" /\ entry_name = "X")
    => evaluate(TheMatch, State, 0, ProbeSpan)
           = Try(evaluate(TheMatch.value, State, 1, ProbeSpan), LAMBDA v :
                 AfterScrutinee(TheMatch, v.val, v.st))

\* The match of X has bound k through its arm `k: k` and x holds the value
C19_Witness ==
    /\ pc = "instr"
    /\ entry_name = "X"
    /\ group_idx = 2
    /\ Len(TheMatch.arms) = 2
    /\ TheMatch.arms[2].template = TemplateBinding("k")
    /\ "k" \in DOMAIN scopes[1].variables
    /\ scopes[1].variables["x"] = scopes[1].variables["k"]

----------------------------------------------------------------------------
(* C20 *)

\* The program is `x = match <scrutinee>` with the arms `arms`
RunsMatch(scrutinee_token, arms) ==
    /\ entry_name = "X"
    /\ parse_match(scrutinee_token, arms).ok
    /\ program = MatchProgram(scrutinee_token, arms)

\* C20: when the last arm of a match is written `otherwise n: n` the parsed
\* otherwise clause has the binding n, and when it is written `otherwise:`
\* or `otherwise _:` it has no binding; `match 42` with the arms
\* `1: "one"` and `otherwise n: n` gives 42.
C20_OtherwiseBinding ==
    /\ \A scrutinee_token \in ScrutineeTokens, arms \in ArmLists :
           RunsMatch(scrutinee_token, arms)
           => /\ arms[Len(arms)] = ArmOtherwiseN
                 => /\ parse_match(scrutinee_token, arms).val.otherwise # None
                    /\ parse_match(scrutinee_token, arms).val.otherwise.v.binding
                           = Some("n")
              /\ arms[Len(arms)] \in {ArmOtherwise, ArmOtherwiseUnderscore}
                 => /\ parse_match(scrutinee_token, arms).val.otherwise # None
                    /\ parse_match(scrutinee_token, arms).val.otherwise.v.binding
                           = None
    /\ (Returned /\ RunsMatch(TokenNumber(42), <<ArmOne, ArmOtherwiseN>>))
       => /\ result.ok
          /\ output = <<"42">>

----------------------------------------------------------------------------
(* C21 *)

\* The rendering of the arguments: the display of the only argument, or
\* the displays between brackets
SpreadRendering(arguments) ==
    IF Len(arguments) = 1 THEN display(arguments[1])
    ELSE "[" \o join_display(arguments, 1) \o "]"

\* The values of the literals `args`
RECURSIVE LiteralValues(_, _)
LiteralValues(args, k) ==
    IF k > Len(args) THEN <<>>
    ELSE <<IF args[k].t = "NumberLiteral" THEN Number(args[k].n)
           ELSE String(args[k].s)>> \o LiteralValues(args, k + 1)

\* C21: #* evaluates to the display of the only argument of the innermost
\* scope when there is exactly one, and otherwise to the displays of the
\* arguments joined by ", " between "[" and "]"; Main's [args](#Echo)
\* prints that rendering of args.
C21_SpreadRendersArguments ==
    /\ pc = "instr"
       => evaluate(SpreadArgumentReference, State, 0, ProbeSpan)
              = Ok(String(SpreadRendering(get_all_arguments(scopes))), State)
    /\ \A args \in ArgLists :
           (Returned /\ entry_name = "Main" /\ program = SpreadProgram(args))
           => /\ result.ok
              /\ output = <<SpreadRendering(LiteralValues(args, 1))>>

----------------------------------------------------------------------------
(* C22 *)

Heading(name, level) == [name |-> name, level |-> level]

\* The headings of the source before position i, in source order
RECURSIVE HeadingsBefore(_, _)
HeadingsBefore(i, k) ==
    IF k >= i \/ k > Len(source_events) THEN <<>>
    ELSE (IF source_events[k].t = "StartHeading"
          THEN <<Heading(normalize_block_name(
                             collect_heading_text(source_events, k + 1)),
                         source_events[k].level)>>
          ELSE <<>>)
             \o HeadingsBefore(i, k + 1)

\* The blocks and their descendants, every parent before its children and
\* the children in the order of the list
RECURSIVE Preorder(_, _)
Preorder(blks, k) ==
    IF k > Len(blks) THEN <<>>
    ELSE <<Heading(blks[k].name, blks[k].level)>>
             \o Preorder(blks[k].children, 1)
             \o Preorder(blks, k + 1)

\* The same for the builders of the stack, from the bottom: each is to be
\* the last child of the one below
RECURSIVE StackPreorder(_, _)
StackPreorder(block_stack, k) ==
    IF k > Len(block_stack) THEN <<>>
    ELSE <<Heading(block_stack[k].name, block_stack[k].level)>>
             \o Preorder(block_stack[k].children, 1)
             \o StackPreorder(block_stack, k + 1)

\* Every child below the blocks has a level greater than its parent's
RECURSIVE ChildrenDeeper(_, _)
ChildrenDeeper(blks, k) ==
    \/ k > Len(blks)
    \/ /\ \A c \in 1..Len(blks[k].children) :
              blks[k].children[c].level > blks[k].level
       /\ ChildrenDeeper(blks[k].children, 1)
       /\ ChildrenDeeper(blks, k + 1)

\* The builders a heading of level new_level leaves on the stack
Kept(new_level) ==
    {k \in 1..Len(parse_state.block_stack) :
        parse_state.block_stack[k].level < new_level}

Parsing == pc \in {"parse", "parsed", "parse_failed"}

\* The stack, bottom to top, has strictly increasing levels
StackIncreasing ==
    \A k \in 1..(Len(parse_state.block_stack) - 1) :
        parse_state.block_stack[k].level < parse_state.block_stack[k + 1].level

\* The tree built so far holds the headings read so far, once each, in
\* source order
TreeHoldsHeadings ==
    Preorder(parse_state.top_blocks, 1) \o StackPreorder(parse_state.block_stack, 1)
        = HeadingsBefore(parse_state.i, 1)

\* Children are deeper than their parents, in the blocks and in the builders
TreeDeeper ==
    /\ ChildrenDeeper(parse_state.top_blocks, 1)
    /\ \A k \in 1..Len(parse_state.block_stack) :
           /\ ChildrenDeeper(parse_state.block_stack[k].children, 1)
           /\ \A c \in 1..Len(parse_state.block_stack[k].children) :
                  parse_state.block_stack[k].children[c].level
                      > parse_state.block_stack[k].level

\* A heading leaves on the stack the builders of a smaller level, which are
\* the bottom of the stack, and puts its own builder on top of them
HeadingCloses ==
    ProcessHeading
    => /\ Kept(source_events[parse_state.i].level)
              = 1..(Len(parse_state'.block_stack) - 1)
       /\ \A k \in Kept(source_events[parse_state.i].level) :
              /\ parse_state'.block_stack[k].name = parse_state.block_stack[k].name
              /\ parse_state'.block_stack[k].level = parse_state.block_stack[k].level
       /\ parse_state'.block_stack[Len(parse_state'.block_stack)]
              = BlockBuilder(
                    normalize_block_name(
                        collect_heading_text(source_events, parse_state.i + 1)),
                    source_events[parse_state.i].level)

\* C22: while a source is parsed the levels of the block stack increase
\* strictly from bottom to top; a heading of level L closes every builder
\* of level >= L before its own builder is pushed; in the tree every child
\* has a level greater than its parent's, and the tree holds every heading
\* of the source exactly once, parents before children and children in
\* source order; the program returned holds the whole tree.
C22_HeadingTree ==
    /\ [](Parsing => StackIncreasing /\ TreeHoldsHeadings /\ TreeDeeper)
    /\ [](pc = "parsed"
             => /\ parse_state.block_stack = <<>>
                /\ program.blocks = parse_state.top_blocks
                /\ Preorder(program.blocks, 1)
                       = HeadingsBefore(Len(source_events) + 1, 1))
    /\ [][HeadingCloses]_vars

\* A program of one top-level block with two children: the second heading
\* of level 2 closed the first
C22_Witness ==
    /\ pc = "parsed"
    /\ Len(program.blocks) = 1
    /\ Len(program.blocks[1].children) = 2

----------------------------------------------------------------------------
(* C23 *)

\* The names of the blocks of the tree
NamesOf(blks) ==
    {Preorder(blks, 1)[k].name : k \in 1..Len(Preorder(blks, 1))}

\* C23: no block of a program that parse returns has the empty name,
\* whatever the headings of the source hold.
C23_NamesNonEmpty ==
    pc = "parsed" => "" \notin NamesOf(program.blocks)

----------------------------------------------------------------------------
(* C24 *)

\* The blocks of the tree, every parent before its children
RECURSIVE PreorderBlocks(_, _)
PreorderBlocks(blks, k) ==
    IF k > Len(blks) THEN <<>>
    ELSE <<blks[k]>> \o PreorderBlocks(blks[k].children, 1)
             \o PreorderBlocks(blks, k + 1)

\* The positions of the headings in the source, in order
RECURSIVE HeadingPositions(_)
HeadingPositions(k) ==
    IF k > Len(source_events) THEN <<>>
    ELSE (IF source_events[k].t = "StartHeading" THEN <<k>> ELSE <<>>)
             \o HeadingPositions(k + 1)

\* The numbers written before the items that follow position k, up to the
\* next heading
RECURSIVE MarkersAfter(_)
MarkersAfter(k) ==
    IF k > Len(source_events) \/ source_events[k].t = "StartHeading" THEN <<>>
    ELSE (IF source_events[k].t = "StartItem"
          THEN <<MarkerNumbers[source_events[k].marker]>>
          ELSE <<>>)
             \o MarkersAfter(k + 1)

\* The index of every instruction of the chain, in chain order
RECURSIVE InstructionIndices(_, _)
InstructionIndices(groups, g) ==
    IF g > Len(groups) THEN <<>>
    ELSE [p \in 1..Len(groups[g].instructions) |-> groups[g].index]
             \o InstructionIndices(groups, g + 1)

\* C24: in the chain of every block that parse returns the group indices
\* never decrease and no two adjacent groups have the same index, and the
\* instructions carry, in source order, the numbers written before the
\* items of the block: items that follow each other with the same number
\* are one group, items with the same number apart from each other are not.
C24_GroupIndices ==
    pc = "parsed"
    => \A n \in 1..Len(PreorderBlocks(program.blocks, 1)) :
           /\ \A g \in 1..(Len(PreorderBlocks(program.blocks, 1)[n].chain.groups) - 1) :
                  PreorderBlocks(program.blocks, 1)[n].chain.groups[g].index
                      < PreorderBlocks(program.blocks, 1)[n].chain.groups[g + 1].index
           /\ InstructionIndices(PreorderBlocks(program.blocks, 1)[n].chain.groups, 1)
                  = MarkersAfter(HeadingPositions(1)[n] + 1)

----------------------------------------------------------------------------
(* C25 *)

PrintR == PrintExpr(TemplateString(<<Literal("r")>>))

\* `false ? **hi**` and `false ? 1`: strikethrough values that defer a
\* print and a number
DeferredPrint == Conditional(BooleanLiteral(FALSE), PrintHi, None)

DeferredOne == Conditional(BooleanLiteral(FALSE), NumberLiteral(1), None)

\* Operands: truthy, falsy, writing, deferred, failing, read from a variable
BinaryOperands ==
    {NumberLiteral(1), BooleanLiteral(FALSE), PrintHi, PrintR, DeferredPrint,
     DeferredOne, VariableReference("nope", ProbeSpan),
     VariableReference("y", ProbeSpan)}

TakenAsTheyAre == {"Equality", "Inequality", "LogicalAnd", "LogicalOr"}

Demanding == {"Addition", "Subtraction", "LessThan"}

\* What the operators that do not demand give for two values
Compared(operator, left, right) ==
    CASE operator = "Equality" -> Boolean(left = right)
      [] operator = "Inequality" -> Boolean(left # right)
      [] operator = "LogicalAnd" ->
             Boolean(~is_falsy(left) /\ ~is_falsy(right))
      [] operator = "LogicalOr" ->
             Boolean(~is_falsy(left) \/ ~is_falsy(right))

\* The evaluation of `left operator right` in the current state
Binary(operator, left, right) ==
    evaluate(BinaryOperation(operator, left, right), State, 0, ProbeSpan)

\* The entry block is `1. y = false ? **hi**` / `2. **{y == y}**`
ComparesDeferred ==
    /\ block # None
    /\ block.name = "M"
    /\ block.chain = ChainOfItems(Items(<<<<1, "y = false ? **hi**">>,
                                         <<2, "**{y == y}**">>>>))

\* C25: ==, !=, && and || evaluate the left operand and then the right
\* one, whatever the left one gave, and compute with the two values as
\* they are: a strikethrough value is not demanded, is falsy, and what it
\* defers does not run.  Every other operator evaluates both operands, then
\* demands the left value, then the right value, then computes.
C25_BinaryOperands ==
    /\ pc = "instr"
       => /\ \A left \in BinaryOperands, right \in BinaryOperands :
                 /\ \A operator \in TakenAsTheyAre :
                        Binary(operator, left, right)
                            = Try(evaluate(left, State, 1, ProbeSpan), LAMBDA l :
                              Try(evaluate(right, l.st, 1, ProbeSpan), LAMBDA r :
                                  Ok(Compared(operator, l.val, r.val), r.st)))
                 /\ \A operator \in Demanding :
                        Binary(operator, left, right)
                            = Try(evaluate(left, State, 1, ProbeSpan), LAMBDA l :
                              Try(evaluate(right, l.st, 1, ProbeSpan), LAMBDA r :
                              Try(demand(l.val, r.st, 1), LAMBDA ld :
                              Try(demand(r.val, ld.st, 1), LAMBDA rd :
                                  lift(eval_binary_op(operator, ld.val, rd.val),
                                       rd.st)))))
          /\ \A operator \in TakenAsTheyAre \cup Demanding :
                 Binary(operator, PrintHi, PrintR).st.output
                     = output \o <<"hi", "r">>
          /\ Binary("LogicalOr", NumberLiteral(1), PrintHi)
                 = Ok(Boolean(TRUE), writeln(State, "hi"))
          /\ Binary("LogicalAnd", BooleanLiteral(FALSE), PrintHi)
                 = Ok(Boolean(FALSE), writeln(State, "hi"))
          /\ Binary("Equality", DeferredPrint, DeferredPrint)
                 = Ok(Boolean(TRUE), State)
          /\ Binary("LogicalOr", DeferredPrint, DeferredOne)
                 = Ok(Boolean(FALSE), State)
          /\ Binary("Addition", DeferredOne, DeferredOne) = Ok(Number(2), State)
          /\ Binary("Addition", DeferredPrint, PrintR).st.output
                 = output \o <<"r", "hi">>
    /\ (ComparesDeferred /\ Returned)
       => /\ result.ok
          /\ output = <<"true">>

\* `y == y` has been printed for a y that defers a print, and nothing
\* else was written
C25_Witness ==
    /\ ComparesDeferred
    /\ Returned
    /\ output = <<"true">>
    /\ scopes = <<>>
    /\ trace # <<>>

----------------------------------------------------------------------------
(* C26 *)

\* No element of the sequence occurs twice
NoRepetition(names) ==
    \A i \in 1..Len(names), j \in 1..Len(names) : names[i] = names[j] => i = j

\* C26: the list that lexical_ancestors builds for a block of a parsed
\* program never holds a name twice, so the walk ends after at most as many
\* turns as there are names in the parent map.
C26_AncestorsEnd ==
    pc \in {"walk", "walked"}
        => /\ NoRepetition(walk.ancestors)
           /\ Len(walk.ancestors) <= Cardinality(DOMAIN registry.parent_map)

----------------------------------------------------------------------------
(* C27 *)

\* A file is loaded in this step
ImportLoaded == registry'.import_cache # registry.import_cache

\* C27: a step that loads an import leaves the local block map as it was,
\* and lexical_ancestors of every local block gives the list it gave before.
C27_ImportKeepsAncestors ==
    [][ImportLoaded
          => /\ registry'.blocks = registry.blocks
             /\ \A block_name \in DOMAIN registry.blocks :
                    lexical_ancestors(registry', block_name)
                        = lexical_ancestors(registry, block_name)]_vars

----------------------------------------------------------------------------
(* C28 *)

\* The argument lists the invocations are tried with
InvocationArguments == {<<>>, <<Number(42)>>}

\* invoke_block of a block of the program in the current state
Invocation(block_name, arguments, evaluate_result) ==
    invoke_block(Local(block_name), arguments, State, evaluate_result,
                 exec_depth + 1)

\* C28: an invocation that returns a value leaves every scope of its
\* callers as it was, and the scope of the invoked block is gone: the
\* assignments and the match bindings of the invoked block went to its own
\* scope only.
C28_InvocationKeepsCallers ==
    pc = "instr"
        => \A block_name \in DOMAIN registry.blocks,
              arguments \in InvocationArguments, evaluate_result \in BOOLEAN :
               Invocation(block_name, arguments, evaluate_result).ok
                   => Invocation(block_name, arguments, evaluate_result).st.scopes
                          = scopes

\* Main has invoked Echo, which assigned its x and printed it, and Main has
\* no x
C28_Witness ==
    /\ entry_name = "Main"
    /\ pc = "instr"
    /\ output = <<"[42]">>
    /\ Len(scopes) = 1
    /\ "x" \notin DOMAIN scopes[1].variables
    /\ Invocation("Echo", <<Number(42)>>, FALSE).ok
    /\ Invocation("Echo", <<Number(42)>>, FALSE).st.output = <<"[42]", "[42]">>

----------------------------------------------------------------------------
(* C29 *)

\* The expressions and the template a strikethrough value captures
CapturedExpressions ==
    {VariableReference("x", ProbeSpan), VariableReference("y", ProbeSpan),
     PositionalArgumentReference(0, ProbeSpan), SpreadArgumentReference}

TemplateOfX == single_expression(VariableReference("x", ProbeSpan))

\* The current state in a block that has just been entered with the one
\* argument n
Entered(n) == push_scope(State, Scope(<<Number(n)>>, <<>>, "S", <<>>))

\* The result r is the value v
Gives(r, v) == r.ok /\ r.val = v

\* The entry block is the chain that demands y before and after `x = 2`
DemandsTwice ==
    /\ block # None
    /\ block.name = "M"
    /\ block.chain =
           ChainOfItems(Items(<<<<1, "x = 1">>, <<2, "y = false ? x">>,
                                <<3, "**{-y}**">>, <<4, "x = 2">>,
                                <<5, "**{-y}**">>>>))

\* C29: demanding Strikethrough(Lazy(ast)) or Strikethrough(Template(ts))
\* evaluates what was captured in the environment of the demand: a
\* variable has the value it has then, #0 and #* are the arguments of the
\* innermost scope then; one value demanded twice gives two results.
C29_DemandResolvesAtDemand ==
    /\ pc = "instr"
       => /\ \A ast \in CapturedExpressions :
                 /\ demand(Strikethrough(Lazy(ast)), State, exec_depth)
                        = evaluate(ast, State, exec_depth, Range(0, 0))
                 /\ \A n \in {1, 2} :
                        demand(Strikethrough(Lazy(ast)), Entered(n), exec_depth)
                            = evaluate(ast, Entered(n), exec_depth, Range(0, 0))
          /\ \A n \in {1, 2} :
                 /\ Gives(demand(Strikethrough(Lazy(VariableReference("x", ProbeSpan))),
                                 set_variable(State, "x", Number(n)), exec_depth),
                          Number(n))
                 /\ Gives(demand(Strikethrough(Template(TemplateOfX)),
                                 set_variable(State, "x", Number(n)), exec_depth),
                          Number(n))
                 /\ Gives(demand(Strikethrough(Lazy(
                                     PositionalArgumentReference(0, ProbeSpan))),
                                 Entered(n), exec_depth),
                          Number(n))
                 /\ Gives(demand(Strikethrough(Lazy(SpreadArgumentReference)),
                                 Entered(n), exec_depth),
                          String("[" \o display(Number(n)) \o "]"))
    /\ (DemandsTwice /\ Returned)
       => /\ result.ok
          /\ output = <<"-1", "-2">>

\* The y that captured x was demanded when x was 1 and again when x was 2
C29_Witness ==
    /\ DemandsTwice
    /\ Returned
    /\ output = <<"-1", "-2">>

----------------------------------------------------------------------------
(* C30 *)

\* C30: when an instruction is about to be evaluated there are a scope and
\* a fence context for every block whose chain is running and nothing has
\* panicked, and an invocation that returns a value leaves the fence
\* contexts of its callers as they were: the same reads, the same writes,
\* the same current instruction.
C30_FenceContextsOfCallers ==
    /\ panic = ""
    /\ pc = "instr"
       => /\ scopes # <<>>
          /\ fence_stack # <<>>
          /\ Len(fence_stack) = Len(scopes)
          /\ \A block_name \in DOMAIN registry.blocks,
                arguments \in InvocationArguments, evaluate_result \in BOOLEAN :
                 Invocation(block_name, arguments, evaluate_result).ok
                     => Invocation(block_name, arguments,
                                   evaluate_result).st.fence_stack
                            = fence_stack

----------------------------------------------------------------------------
(* The two ways of running a program agree *)

\* execute_block of the entry block, its calls made inside it
EntryRun(entry) == execute_block(entry, <<>>, FreshState(program), 0)

\* A program whose invocations come to an end gives, run call by call, the
\* result, the writer contents, the diagnostics, the stacks and the history
\* it gives with its calls made inside the instruction that invokes
StepwiseAgrees ==
    (Returned /\ block # None /\ entry_name \notin RecursiveEntries)
    => \E entry \in get_entry(registry, entry_name) :
           /\ result.ok = EntryRun(entry).ok
           /\ result.ok => /\ result.val = EntryRun(entry).val
                           /\ result.diagnostics = EntryRun(entry).st.diagnostics
           /\ ~result.ok => result.err = EntryRun(entry).err
           /\ output = EntryRun(entry).st.output
           /\ diagnostics = EntryRun(entry).st.diagnostics
           /\ scopes = EntryRun(entry).st.scopes
           /\ fence_stack = EntryRun(entry).st.fence_stack
           /\ trace = EntryRun(entry).st.trace

====
